---- MODULE Spec2Model ----
(***************************************************************************)
(* A model of the unidoc PDF core: the stream codecs (run-length and       *)
(* ASCII-85), the per-object key derivation, the byte ciphers, the object  *)
(* tree encryptor/decryptor and the password authenticators of PdfCrypt.   *)
(*                                                                         *)
(* Bytes are the integers 0..255 and byte strings are sequences of them.   *)
(* A Go (value, error) result is a record [out |-> value, err |-> text]    *)
(* where err = NoErr stands for a nil error and err = Panic for a run-time *)
(* panic that unwinds the call.                                            *)
(***************************************************************************)
EXTENDS Integers, Sequences, FiniteSets, TLC

VARIABLES
    pc,        \* the position of the scenario that is running
    data,      \* the bytes X handed to EncodeBytes / encryptBytes
    encoded,   \* the result of EncodeBytes / encryptBytes
    decoded,   \* the result of DecodeBytes / decryptBytes
    crypt,     \* the PdfCrypt value
    args,      \* the arguments of the call the scenario makes
    ret,       \* what the last call returned
    heap,      \* the object graph: object identity -> object
    cnt        \* per object, the calls of decryptBytes and encryptBytes on it

vars == <<pc, data, encoded, decoded, crypt, args, ret, heap, cnt>>

NoErr == ""
Panic == "panic"
ErrEOF == "EOF"

Ok(v) == [out |-> v, err |-> NoErr]
Fail(v, e) == [out |-> v, err |-> e]
Nil == << >>

\* No object graph is in play.
WalkIdle == heap = << >> /\ cnt = << >>

Min(a, b) == IF a < b THEN a ELSE b

\* n copies of byte b
Rep(b, n) == [i \in 1..n |-> b]

\* The one element of a singleton set.
The(S) == CHOOSE r \in S : TRUE

\* byte(x): the conversion of a Go int to a byte keeps the low 8 bits
Byte(x) == x % 256

(***************************************************************************)
(* RunLengthEncoder                                                        *)
(***************************************************************************)

\* The loop of RunLengthEncoder.DecodeBytes: i is the reader's position
\* (1-based), inb the bytes decoded so far.
RECURSIVE RunLengthDecodeLoop(_, _, _)
RunLengthDecodeLoop(enc, i, inb) ==
    IF i > Len(enc) THEN Fail(Nil, ErrEOF)
    ELSE LET b == enc[i] IN
         IF b > 128 THEN
             IF i + 1 > Len(enc) THEN Fail(Nil, ErrEOF)
             ELSE RunLengthDecodeLoop(enc, i + 2, inb \o Rep(enc[i + 1], 257 - b))
         ELSE IF b < 128 THEN
             IF i + b + 1 > Len(enc) THEN Fail(Nil, ErrEOF)
             ELSE RunLengthDecodeLoop(enc, i + b + 2,
                                      inb \o SubSeq(enc, i + 1, i + b + 1))
         ELSE Ok(inb)

RunLengthDecodeBytes(enc) == RunLengthDecodeLoop(enc, 1, Nil)

\* The literal flushed as a length byte followed by its bytes.
RunLengthLiteral(literal) == <<Byte(Len(literal) - 1)>> \o literal

\* The run flushed as a length byte followed by the repeated byte.
RunLengthRun(runLen, b0) == <<Byte(257 - runLen), b0>>

\* One iteration of the loop of RunLengthEncoder.EncodeBytes on the byte b
\* just read; st holds the locals b0, runLen, literal and inb.
RunLengthEncodeStep(st, b) ==
    IF b = st.b0 THEN
        LET hadLit == Len(st.literal) > 0
            lit1 == IF hadLit THEN SubSeq(st.literal, 1, Len(st.literal) - 1) ELSE Nil
            inb1 == IF hadLit /\ Len(lit1) > 0
                    THEN st.inb \o RunLengthLiteral(lit1) ELSE st.inb
            run1 == (IF hadLit THEN 1 ELSE st.runLen) + 1
        IN IF run1 >= 127
           THEN [b0 |-> b, runLen |-> 0, literal |-> Nil,
                 inb |-> inb1 \o RunLengthRun(run1, st.b0)]
           ELSE [b0 |-> b, runLen |-> run1, literal |-> Nil, inb |-> inb1]
    ELSE
        LET lit0 == IF st.runLen = 1 THEN <<st.b0>> ELSE st.literal
            inb1 == IF st.runLen > 1
                    THEN st.inb \o RunLengthRun(st.runLen, st.b0) ELSE st.inb
            lit1 == lit0 \o <<b>>
        IN IF Len(lit1) >= 127
           THEN [b0 |-> b, runLen |-> 0, literal |-> Nil,
                 inb |-> inb1 \o RunLengthLiteral(lit1)]
           ELSE [b0 |-> b, runLen |-> 0, literal |-> lit1, inb |-> inb1]

\* The loop of RunLengthEncoder.EncodeBytes over d[lo..hi], in order. The
\* range is split in halves, and the left half is computed before the right
\* one is entered, so that the evaluation does not nest once per byte.
RECURSIVE RunLengthEncodeLoop(_, _, _, _)
RunLengthEncodeLoop(d, lo, hi, st) ==
    IF lo > hi THEN st
    ELSE IF lo = hi THEN RunLengthEncodeStep(st, d[lo])
    ELSE LET mid == (lo + hi) \div 2
             left == RunLengthEncodeLoop(d, lo, mid, st)
         IN IF left.runLen < 0 THEN left
            ELSE RunLengthEncodeLoop(d, mid + 1, hi, left)

RunLengthEncodeBytes(d) ==
    IF Len(d) = 0 THEN Ok(Nil)
    ELSE LET st == RunLengthEncodeLoop(d, 2, Len(d),
                       [b0 |-> d[1], runLen |-> 1, literal |-> Nil, inb |-> Nil])
             \* after the loop: flush what is pending, then the EOD marker
             tail == IF Len(st.literal) > 0 THEN RunLengthLiteral(st.literal)
                     ELSE IF st.runLen > 0 THEN RunLengthRun(st.runLen, st.b0)
                     ELSE Nil
         IN Ok(st.inb \o tail \o <<128>>)

(***************************************************************************)
(* ASCII85Encoder                                                          *)
(***************************************************************************)

\* The bytes the PDF syntax treats as white space: NUL, HT, LF, FF, CR, SP.
IsWhiteSpace(b) == b \in {0, 9, 10, 12, 13, 32}

ChBang == 33     \* '!'
ChGt == 62       \* '>'
ChU == 117       \* 'u'
ChZ == 122       \* 'z'
ChTilde == 126   \* '~'

\* A uint32 is kept as its four bytes, most significant first, so that the
\* arithmetic below never leaves the range of the checker's integers.

\* The quotient and remainder of a uint32 divided by 85 (long division).
U32DivMod85(w) ==
    LET c1 == w[1]
        c2 == (c1 % 85) * 256 + w[2]
        c3 == (c2 % 85) * 256 + w[3]
        c4 == (c3 % 85) * 256 + w[4]
    IN [q |-> <<c1 \div 85, c2 \div 85, c3 \div 85, c4 \div 85>>, r |-> c4 % 85]

\* w * 85 + digit in uint32 arithmetic: the carry out of the top byte is lost.
U32MulAdd85(w, digit) ==
    LET c4 == w[4] * 85 + digit
        c3 == w[3] * 85 + (c4 \div 256)
        c2 == w[2] * 85 + (c3 \div 256)
        c1 == w[1] * 85 + (c2 \div 256)
    IN <<c1 % 256, c2 % 256, c3 % 256, c4 % 256>>

\* ASCII85Encoder.base256Tobase85: the five base-85 digits of a uint32,
\* most significant first (val = remainder / 85^(4-i) for i = 0..4).
base256Tobase85(w) ==
    LET s5 == U32DivMod85(w)
        s4 == U32DivMod85(s5.q)
        s3 == U32DivMod85(s4.q)
        s2 == U32DivMod85(s3.q)
        s1 == U32DivMod85(s2.q)
    IN <<s1.r, s2.r, s3.r, s4.r, s5.r>>

\* One group of ASCII85Encoder.EncodeBytes: the (up to) four bytes at the
\* 0-based offset i of data.
ASCII85EncodeGroup(d, i) ==
    LET at(k) == IF i + k < Len(d) THEN d[i + k + 1] ELSE 0
        n == Min(4, Len(d) - i)
        base256 == <<at(0), at(1), at(2), at(3)>>
        base85vals == base256Tobase85(base256)
    IN IF base256 = <<0, 0, 0, 0>> THEN <<ChZ>>
       ELSE [k \in 1..(n + 1) |-> base85vals[k] + ChBang]

RECURSIVE ASCII85EncodeLoop(_, _, _)
ASCII85EncodeLoop(d, i, acc) ==
    IF i >= Len(d) THEN acc
    ELSE ASCII85EncodeLoop(d, i + 4, acc \o ASCII85EncodeGroup(d, i))

ASCII85EncodeBytes(d) == Ok(ASCII85EncodeLoop(d, 0, Nil) \o <<ChTilde, ChGt>>)

\* The inner loop of ASCII85Encoder.DecodeBytes: reads one group starting at
\* the 0-based offset i; j, spaces and codes are the locals of the function.
RECURSIVE ASCII85DecodeGroup(_, _, _, _, _)
ASCII85DecodeGroup(enc, i, j, spaces, codes) ==
    IF ~(j < 5 + spaces) \/ i + j = Len(enc)
    THEN [j |-> j, codes |-> codes, toWrite |-> 4, eod |-> FALSE, err |-> NoErr]
    ELSE LET code == enc[i + j + 1] IN
         IF IsWhiteSpace(code)
         THEN ASCII85DecodeGroup(enc, i, j + 1, spaces + 1, codes)
         ELSE IF code = ChTilde /\ i + j + 1 < Len(enc) /\ enc[i + j + 2] = ChGt
         THEN [j |-> j, codes |-> codes,
               toWrite |-> IF (j - spaces) - 1 < 0 THEN 0 ELSE (j - spaces) - 1,
               eod |-> TRUE, err |-> NoErr]
         ELSE IF code >= ChBang /\ code <= ChU
         THEN ASCII85DecodeGroup(enc, i, j + 1, spaces,
                                 [codes EXCEPT ![j - spaces + 1] = code - ChBang])
         ELSE IF code = ChZ /\ j - spaces = 0
         THEN [j |-> j + 1, codes |-> codes, toWrite |-> 4, eod |-> FALSE,
               err |-> NoErr]
         ELSE [j |-> j, codes |-> codes, toWrite |-> 0, eod |-> FALSE,
               err |-> "Invalid code encountered"]

\* The bytes one decoded group contributes: the codes padded with 'u' - '!'
\* past toWrite, converted to a uint32, of which toWrite bytes are kept.
ASCII85GroupBytes(codes, toWrite) ==
    LET padded == [m \in 1..5 |-> IF m - 1 >= toWrite + 1 THEN 84 ELSE codes[m]]
        value == U32MulAdd85(U32MulAdd85(U32MulAdd85(U32MulAdd85(
                     U32MulAdd85(<<0, 0, 0, 0>>, padded[1]), padded[2]),
                     padded[3]), padded[4]), padded[5])
        decodedBytes == value
    IN SubSeq(decodedBytes, 1, toWrite)

RECURSIVE ASCII85DecodeLoop(_, _, _, _)
ASCII85DecodeLoop(enc, i, eod, dec) ==
    IF ~(i < Len(enc) /\ ~eod) THEN Ok(dec)
    ELSE LET g == ASCII85DecodeGroup(enc, i, 0, 0, <<0, 0, 0, 0, 0>>) IN
         IF g.err # NoErr THEN Fail(Nil, g.err)
         ELSE ASCII85DecodeLoop(enc, i + g.j, g.eod,
                                dec \o ASCII85GroupBytes(g.codes, g.toWrite))

ASCII85DecodeBytes(enc) == ASCII85DecodeLoop(enc, 0, FALSE, Nil)

(***************************************************************************)
(* The library primitives PdfCrypt rests on. The digests and ciphers of    *)
(* crypto/md5, crypto/sha256, crypto/sha512, crypto/rc4 and crypto/aes are *)
(* stood in for by small deterministic functions that keep what the code   *)
(* relies on: the digest lengths, the key lengths each cipher accepts, RC4 *)
(* being an XOR with a keystream that depends on the key alone, AES being  *)
(* a keyed permutation of 16-byte blocks, and the CBC and ECB chaining.    *)
(***************************************************************************)

Bit(x, k) == (x \div k) % 2

\* a ^ b on bytes
Xor(a, b) ==
      (IF Bit(a, 1) # Bit(b, 1) THEN 1 ELSE 0)
    + (IF Bit(a, 2) # Bit(b, 2) THEN 2 ELSE 0)
    + (IF Bit(a, 4) # Bit(b, 4) THEN 4 ELSE 0)
    + (IF Bit(a, 8) # Bit(b, 8) THEN 8 ELSE 0)
    + (IF Bit(a, 16) # Bit(b, 16) THEN 16 ELSE 0)
    + (IF Bit(a, 32) # Bit(b, 32) THEN 32 ELSE 0)
    + (IF Bit(a, 64) # Bit(b, 64) THEN 64 ELSE 0)
    + (IF Bit(a, 128) # Bit(b, 128) THEN 128 ELSE 0)

XorSeq(x, y) == [i \in 1..Len(x) |-> Xor(x[i], y[i])]

\* A number that depends on every byte of x[lo..hi] and on their order,
\* started from h. The range is absorbed half by half, which is the byte by
\* byte loop with a shallower evaluation.
RECURSIVE AbsorbRange(_, _, _, _)
AbsorbRange(x, lo, hi, h) ==
    IF lo > hi THEN h
    ELSE IF lo = hi THEN (h * 131 + x[lo] + 1) % 1000003
    ELSE LET mid == (lo + hi) \div 2
             left == AbsorbRange(x, lo, mid, h)
         IN IF left < 0 THEN left ELSE AbsorbRange(x, mid + 1, hi, left)

\* The same from x[i] to the end of x.
Absorb(x, i, h) == AbsorbRange(x, i, Len(x), h)

\* The digest of x, n bytes long, of the hash function numbered by seed.
Digest(seed, n, x) ==
    The({[i \in 1..n |-> IF i = 1 THEN h % 256
                         ELSE IF i = 2 THEN (h \div 256) % 256
                         ELSE IF i = 3 THEN (h \div 65536) % 256
                         ELSE ((h % 9973) * (i + seed) + (h \div 9973) + i) % 256] :
         h \in {Absorb(x, 1, seed)}})

MD5(x) == Digest(5, 16, x)
SHA256(x) == Digest(256, 32, x)

\* rc4.NewCipher accepts keys of 1..256 bytes.
RC4KeyOk(key) == Len(key) >= 1 /\ Len(key) <= 256

\* The first n bytes of the RC4 keystream of key.
RC4KeyStream(key, n) ==
    The({[i \in 1..n |-> ((h % 251) * i + (h \div 251) + i * i) % 256] :
         h \in {Absorb(key, 1, 4)}})

\* XORKeyStream of a cipher freshly made from key.
RC4(key, buf) == XorSeq(buf, RC4KeyStream(key, Len(buf)))

AESBlockSize == 16

\* aes.NewCipher accepts keys of 16, 24 or 32 bytes.
AESKeyOk(key) == Len(key) \in {16, 24, 32}

AESRound(key, i) == (Absorb(key, 1, 7) + 17 * i) % 256

\* The block cipher on one 16-byte block, and its inverse.
AESEncryptBlock(key, b) ==
    [i \in 1..AESBlockSize |-> (b[(i % AESBlockSize) + 1] + AESRound(key, i)) % 256]

AESDecryptBlock(key, c) ==
    [m \in 1..AESBlockSize |->
        LET i == ((m + AESBlockSize - 2) % AESBlockSize) + 1
        IN (c[i] + 256 - AESRound(key, i)) % 256]

Block(buf, k) == SubSeq(buf, (k - 1) * AESBlockSize + 1, k * AESBlockSize)

\* cipher.NewCBCEncrypter(ac, iv).CryptBlocks on a whole number of blocks.
RECURSIVE CBCEncrypt(_, _, _)
CBCEncrypt(key, iv, buf) ==
    IF Len(buf) = 0 THEN Nil
    ELSE LET c == AESEncryptBlock(key, XorSeq(Block(buf, 1), iv))
         IN c \o CBCEncrypt(key, c, SubSeq(buf, AESBlockSize + 1, Len(buf)))

\* cipher.NewCBCDecrypter(ac, iv).CryptBlocks on a whole number of blocks.
RECURSIVE CBCDecrypt(_, _, _)
CBCDecrypt(key, iv, buf) ==
    IF Len(buf) = 0 THEN Nil
    ELSE LET c == Block(buf, 1)
         IN XorSeq(AESDecryptBlock(key, c), iv)
            \o CBCDecrypt(key, c, SubSeq(buf, AESBlockSize + 1, Len(buf)))

(***************************************************************************)
(* PdfCrypt: the crypt filter registry, makeKey, decryptBytes and          *)
(* encryptBytes                                                            *)
(***************************************************************************)

CryptFilterV2 == "V2"
CryptFilterAESV2 == "AESV2"
CryptFilterAESV3 == "AESV3"

\* A CryptFilter value
CryptFilter(cfm, length) == [Cfm |-> cfm, Length |-> length]

\* The registry LoadCryptFilters builds from a CF dictionary with one entry
\* per method, followed by the Identity entry that cannot be overridden.
CryptFiltersV4 ==
    [n \in {"StdCF", "AESCF", "AES3CF", "Identity"} |->
        IF n = "StdCF" THEN CryptFilter(CryptFilterV2, 16)
        ELSE IF n = "AESCF" THEN CryptFilter(CryptFilterAESV2, 16)
        ELSE IF n = "AES3CF" THEN CryptFilter(CryptFilterAESV3, 32)
        ELSE CryptFilter("", 0)]

\* The registry PdfCryptMakeNew builds for V = 1 and V = 2.
CryptFiltersV2(length) == [n \in {"Default"} |-> CryptFilter("V2", length)]

\* The k low bytes of n, least significant first.
LowBytesLE(n, k) ==
    [i \in 1..k |-> IF i = 1 THEN n % 256
                    ELSE IF i = 2 THEN (n \div 256) % 256
                    ELSE IF i = 3 THEN (n \div 65536) % 256
                    ELSE (n \div 16777216) % 256]

Salt == <<115, 65, 108, 84>>   \* "sAlT"

\* PdfCrypt.makeKey
makeKey(cr, filter, objNum, genNum, ekey) ==
    IF filter \notin DOMAIN cr.CryptFilters
    THEN Fail(Nil, "Unsupported crypt filter")
    ELSE LET cf == cr.CryptFilters[filter] IN
         IF cf.Cfm = CryptFilterAESV3 THEN Ok(ekey)
         ELSE LET isAES2 == cf.Cfm = CryptFilterAESV2
                  key == ekey \o LowBytesLE(objNum, 3) \o LowBytesLE(genNum, 2)
                         \o (IF isAES2 THEN Salt ELSE Nil)
                  hashb == MD5(key)
              IN IF Len(ekey) + 5 < 16 THEN Ok(SubSeq(hashb, 1, Len(ekey) + 5))
                 ELSE Ok(hashb)

\* PdfCrypt.decryptBytes. On an error the value returned beside it is the
\* one the code returns: nil, the buffer, or the buffer without its IV.
decryptBytes(cr, buf, filter, okey) ==
    IF filter \notin DOMAIN cr.CryptFilters
    THEN Fail(Nil, "Unsupported crypt filter")
    ELSE LET cfMethod == cr.CryptFilters[filter].Cfm IN
         IF cfMethod = CryptFilterV2 THEN
             IF ~RC4KeyOk(okey) THEN Fail(Nil, "rc4: invalid key size")
             ELSE Ok(RC4(okey, buf))
         ELSE IF cfMethod = CryptFilterAESV2 \/ cfMethod = CryptFilterAESV3 THEN
             IF ~AESKeyOk(okey) THEN Fail(Nil, "aes: invalid key size")
             ELSE IF Len(buf) < 16 THEN Fail(buf, "AES: Buf len < 16")
             ELSE LET iv == SubSeq(buf, 1, 16)
                      rest == SubSeq(buf, 17, Len(buf))
                  IN IF Len(rest) % 16 # 0
                     THEN Fail(rest, "AES buf length not multiple of 16")
                     ELSE LET plain == CBCDecrypt(okey, iv, rest) IN
                          IF Len(plain) = 0 THEN Ok(plain)
                          ELSE IF cfMethod = CryptFilterAESV2 THEN
                              LET padLen == plain[Len(plain)] IN
                              IF padLen >= Len(plain)
                              THEN Fail(plain, "Invalid pad length")
                              ELSE Ok(SubSeq(plain, 1, Len(plain) - padLen))
                          ELSE Ok(plain)
         ELSE Fail(Nil, "Unsupported crypt filter method")

\* PdfCrypt.encryptBytes; iv is what rand.Reader delivers. CryptBlocks
\* panics when its input is not a whole number of blocks.
encryptBytes(cr, buf, filter, okey, iv) ==
    IF filter \notin DOMAIN cr.CryptFilters
    THEN Fail(Nil, "Unsupported crypt filter")
    ELSE LET cfMethod == cr.CryptFilters[filter].Cfm IN
         IF cfMethod = "V2" THEN
             IF ~RC4KeyOk(okey) THEN Fail(Nil, "rc4: invalid key size")
             ELSE Ok(RC4(okey, buf))
         ELSE IF cfMethod = CryptFilterAESV2 \/ cfMethod = CryptFilterAESV3 THEN
             IF ~AESKeyOk(okey) THEN Fail(Nil, "aes: invalid key size")
             ELSE LET pad == 16 - (Len(buf) % 16)
                      padded == IF cfMethod = CryptFilterAESV2
                                THEN buf \o Rep(pad, pad) ELSE buf
                  IN IF Len(padded) % AESBlockSize # 0 THEN Fail(Nil, Panic)
                     ELSE Ok(iv \o CBCEncrypt(okey, iv, padded))
         ELSE Fail(Nil, "Unsupported crypt filter method")

(***************************************************************************)
(* The codec scenarios: EncodeBytes on X, then DecodeBytes on its output.  *)
(***************************************************************************)

\* All sequences over S of length 0..n
RECURSIVE SeqsUpTo(_, _)
SeqsUpTo(S, n) ==
    IF n = 0 THEN {Nil}
    ELSE LET shorter == SeqsUpTo(S, n - 1)
         IN shorter \cup {Append(q, x) : q \in {r \in shorter : Len(r) = n - 1}, x \in S}

RLMaxSegs == 2
RLSegLens == {1, 2, 3, 126, 127, 128, 129}
RLBytes == {65, 66}

\* A stretch of n bytes: a run of b, or a literal stretch in which no two
\* neighbours are equal (b, b+1, b, b+1, ...).
RLSegment(kind, b, n) ==
    [i \in 1..n |-> IF kind = "run" \/ i % 2 = 1 THEN b ELSE b + 1]

RLSegments == {RLSegment(k, b, n) : k \in {"run", "lit"}, b \in RLBytes, n \in RLSegLens}

RECURSIVE Flatten(_)
Flatten(ss) == IF ss = Nil THEN Nil ELSE Head(ss) \o Flatten(Tail(ss))

RLInputs == {Flatten(ss) : ss \in SeqsUpTo(RLSegments, RLMaxSegs)}

A85MaxLen == 5
A85Bytes == {0, 1, 255}
A85Inputs == SeqsUpTo(A85Bytes, A85MaxLen)

InitRL ==
    /\ crypt = Nil /\ args = Nil /\ ret = Nil /\ WalkIdle
    /\ pc = "rl_in"
    /\ data \in RLInputs
    /\ encoded = Ok(Nil)
    /\ decoded = Ok(Nil)

RLEncode ==
    /\ pc = "rl_in"
    /\ encoded' = RunLengthEncodeBytes(data)
    /\ pc' = "rl_enc"
    /\ UNCHANGED <<data, decoded, crypt, args, ret, heap, cnt>>

RLDecode ==
    /\ pc = "rl_enc"
    /\ encoded.err = NoErr
    /\ decoded' = RunLengthDecodeBytes(encoded.out)
    /\ pc' = "rl_dec"
    /\ UNCHANGED <<data, encoded, crypt, args, ret, heap, cnt>>

NextRL == RLEncode \/ RLDecode

SpecRL == InitRL /\ [][NextRL]_vars

InitA85 ==
    /\ crypt = Nil /\ args = Nil /\ ret = Nil /\ WalkIdle
    /\ pc = "a85_in"
    /\ data \in A85Inputs
    /\ encoded = Ok(Nil)
    /\ decoded = Ok(Nil)

A85Encode ==
    /\ pc = "a85_in"
    /\ encoded' = ASCII85EncodeBytes(data)
    /\ pc' = "a85_enc"
    /\ UNCHANGED <<data, decoded, crypt, args, ret, heap, cnt>>

A85Decode ==
    /\ pc = "a85_enc"
    /\ encoded.err = NoErr
    /\ decoded' = ASCII85DecodeBytes(encoded.out)
    /\ pc' = "a85_dec"
    /\ UNCHANGED <<data, encoded, crypt, args, ret, heap, cnt>>

NextA85 == A85Encode \/ A85Decode

SpecA85 == InitA85 /\ [][NextA85]_vars

(***************************************************************************)
(* FlateEncoder                                                            *)
(*                                                                         *)
(* compress/zlib is taken as lossless: the writer frames the data with the *)
(* two header bytes and a one-byte checksum, the reader takes the frame    *)
(* off again. The encoder is the record of the fields of FlateEncoder.     *)
(***************************************************************************)

ErrUnsupportedEncodingParameters == "Unsupported encoding parameters"

\* FlateEncoder{Predictor, BitsPerComponent, Columns, Colors}
FlateEncoder(predictor, bpc, columns, colors) ==
    [Predictor |-> predictor, BitsPerComponent |-> bpc,
     Columns |-> columns, Colors |-> colors]

ZlibHeader == <<120, 156>>

\* zlib.NewWriter, Write, Close
ZlibWrite(d) == ZlibHeader \o d \o <<Absorb(d, 1, 1) % 256>>

\* zlib.NewReader and outBuf.ReadFrom, whose error the code drops
ZlibRead(e) ==
    IF Len(e) < 2 THEN Fail(Nil, "unexpected EOF")
    ELSE IF SubSeq(e, 1, 2) # ZlibHeader THEN Fail(Nil, "zlib: invalid header")
    ELSE Ok(SubSeq(e, 3, Len(e) - 1))

\* FlateEncoder.DecodeBytes
FlateDecodeBytes(enc, e) == ZlibRead(e)

\* rowData[j] on a row held as a sequence (j counts from 0)
At(row, j) == row[j + 1]

\* rowData[j] = byte(int(rowData[j] + d) % 256)
AddAt(row, j, d) == [row EXCEPT ![j + 1] = (row[j + 1] + d) % 256]

absInt(x) == IF x < 0 THEN -x ELSE x

\* The byte the Paeth case adds at j: left, above or upper left.
PaethPick(row, prev, j) ==
    LET a == At(row, j - 1)
        b == At(prev, j)
        c == At(prev, j - 1)
        p == (a + b - c) % 256
        pa == absInt(p - a)
        pb == absInt(p - b)
        pc0 == absInt(p - c)
    IN IF pa <= pb /\ pa <= pc0 THEN a ELSE IF pb <= pc0 THEN b ELSE c

\* The loop over j of one PNG row, in place, for the filter byte fb.
RECURSIVE PNGRowLoop(_, _, _, _)
PNGRowLoop(fb, row, prev, j) ==
    IF j >= Len(row) THEN row
    ELSE PNGRowLoop(fb,
             AddAt(row, j,
                   IF fb = 1 THEN At(row, j - 1)
                   ELSE IF fb = 2 THEN At(prev, j)
                   ELSE IF fb = 3
                   THEN IF j = 1 THEN At(prev, j)
                        ELSE ((At(row, j - 1) + At(prev, j)) % 256) \div 2
                   ELSE PaethPick(row, prev, j)),
             prev, j + 1)

\* One row of the PNG case: the row with its prediction undone.
PNGRow(row, prev) ==
    IF row[1] = 0 THEN row
    ELSE PNGRowLoop(row[1], row, prev, IF row[1] \in {1, 4} THEN 2 ELSE 1)

\* The rows i, i + 1, ... of the PNG case.
RECURSIVE PNGRows(_, _, _, _, _)
PNGRows(outData, rowLength, i, prev, acc) ==
    IF i * rowLength >= Len(outData) THEN Ok(acc)
    ELSE The({IF row[1] > 4 THEN Fail(Nil, "Invalid filter byte")
              ELSE The({PNGRows(outData, rowLength, i + 1, done,
                                acc \o SubSeq(done, 2, rowLength)) :
                        done \in {PNGRow(row, prev)}}) :
              row \in {SubSeq(outData, rowLength * i + 1, rowLength * (i + 1))}})

\* The loop over j of one TIFF row, in place.
RECURSIVE TIFFRowLoop(_, _, _)
TIFFRowLoop(row, colors, j) ==
    IF j >= Len(row) THEN row
    ELSE TIFFRowLoop(AddAt(row, j, At(row, j - colors)), colors, j + 1)

\* The rows i, i + 1, ... of the TIFF case.
RECURSIVE TIFFRows(_, _, _, _)
TIFFRows(outData, rowLength, colors, i) ==
    IF i * rowLength >= Len(outData) THEN Nil
    ELSE TIFFRowLoop(SubSeq(outData, rowLength * i + 1, rowLength * (i + 1)),
                     colors, colors)
         \o TIFFRows(outData, rowLength, colors, i + 1)

\* FlateEncoder.DecodeStream, the predictor post-processing of outData.
FlatePostProcess(enc, outData) ==
    IF enc.Predictor <= 1 THEN Ok(outData)
    ELSE IF enc.Predictor = 2
    THEN LET rowLength == enc.Columns * enc.Colors
         IN IF rowLength < 1 THEN Ok(Nil)
            ELSE IF Len(outData) % rowLength # 0 THEN Fail(Nil, "Invalid row length")
            ELSE IF rowLength > Len(outData) THEN Fail(Nil, "Range check error")
            ELSE Ok(TIFFRows(outData, rowLength, enc.Colors, 0))
    ELSE IF enc.Predictor >= 10 /\ enc.Predictor <= 15
    THEN LET rowLength == enc.Columns * enc.Colors + 1
         IN IF rowLength = 0 THEN Fail(Nil, Panic)
            ELSE IF rowLength < 0 THEN Fail(Nil, Panic)
            ELSE IF Len(outData) % rowLength # 0 THEN Fail(Nil, "Invalid row length")
            ELSE IF rowLength > Len(outData) THEN Fail(Nil, "Range check error")
            ELSE PNGRows(outData, rowLength, 0, Rep(0, rowLength), Nil)
    ELSE Fail(Nil, "Unsupported predictor")

\* FlateEncoder.DecodeStream on a stream whose payload is e.
FlateDecodeStream(enc, e) ==
    IF enc.BitsPerComponent # 8 THEN Fail(Nil, "Invalid BitsPerComponent")
    ELSE The({IF outData.err # NoErr THEN outData
              ELSE FlatePostProcess(enc, outData.out) :
              outData \in {FlateDecodeBytes(enc, e)}})

\* One row of EncodeBytes: the sub method byte and the differences.
FlateSubRow(rowData) ==
    <<1>> \o [j \in 1..Len(rowData) |->
                 IF j = 1 THEN rowData[1]
                 ELSE (rowData[j] - rowData[j - 1]) % 256]

RECURSIVE FlateSubRows(_, _, _)
FlateSubRows(d, rowLength, i) ==
    IF i * rowLength >= Len(d) THEN Nil
    ELSE FlateSubRow(SubSeq(d, rowLength * i + 1, rowLength * (i + 1)))
         \o FlateSubRows(d, rowLength, i + 1)

\* FlateEncoder.EncodeBytes
FlateEncodeBytes(enc, d) ==
    IF enc.Predictor # 1 /\ enc.Predictor # 11
    THEN Fail(Nil, ErrUnsupportedEncodingParameters)
    ELSE IF enc.Predictor = 11
    THEN IF enc.Columns <= 0 THEN Fail(Nil, Panic)
         ELSE IF Len(d) % enc.Columns # 0 THEN Fail(Nil, "Invalid row length")
         ELSE Ok(ZlibWrite(FlateSubRows(d, enc.Columns, 0)))
    ELSE Ok(ZlibWrite(d))

(***************************************************************************)
(* The flate scenario: EncodeBytes on X, then DecodeStream on a stream     *)
(* that holds its output, with the same encoder.                           *)
(***************************************************************************)

FlateMaxLen == 4
FlateBytes == {3, 250}
FlateInputs == SeqsUpTo(FlateBytes, FlateMaxLen)

FlateEncoders ==
    {FlateEncoder(p, 8, columns, colors) :
         p \in {1, 2, 11}, columns \in 1..2, colors \in 1..2}

InitFlate ==
    /\ crypt = Nil /\ ret = Nil /\ WalkIdle
    /\ pc = "flate_in"
    /\ args \in FlateEncoders
    /\ data \in FlateInputs
    /\ encoded = Ok(Nil)
    /\ decoded = Ok(Nil)

FlateEncode ==
    /\ pc = "flate_in"
    /\ encoded' = FlateEncodeBytes(args, data)
    /\ pc' = "flate_enc"
    /\ UNCHANGED <<data, decoded, crypt, args, ret, heap, cnt>>

FlateDecode ==
    /\ pc = "flate_enc"
    /\ encoded.err = NoErr
    /\ decoded' = FlateDecodeStream(args, encoded.out)
    /\ pc' = "flate_dec"
    /\ UNCHANGED <<data, encoded, crypt, args, ret, heap, cnt>>

NextFlate == FlateEncode \/ FlateDecode

SpecFlate == InitFlate /\ [][NextFlate]_vars

(***************************************************************************)
(* LZWEncoder.DecodeStream                                                 *)
(*                                                                         *)
(* compress/lzw is taken as lossless, as zlib is: the writer ends the data *)
(* with one end-of-data byte and the reader takes it off.                  *)
(***************************************************************************)

\* LZWEncoder{Predictor, BitsPerComponent, Columns, Colors, EarlyChange}
LZWEncoder(predictor, bpc, columns, colors, earlyChange) ==
    [Predictor |-> predictor, BitsPerComponent |-> bpc, Columns |-> columns,
     Colors |-> colors, EarlyChange |-> earlyChange]

LZWEod == <<129>>

\* lzw0.NewWriter, Write, Close
LZWWrite(d) == d \o LZWEod

\* LZWEncoder.EncodeBytes
LZWEncodeBytes(enc, d) ==
    IF enc.Predictor # 1 THEN Fail(Nil, "LZW Predictor = 1 only supported yet")
    ELSE IF enc.EarlyChange = 1
    THEN Fail(Nil, "LZW Early Change = 0 only supported yet")
    ELSE Ok(LZWWrite(d))

\* LZWEncoder.DecodeBytes: lzw.NewReader and outBuf.ReadFrom
LZWDecodeBytes(enc, e) ==
    IF e = Nil \/ <<e[Len(e)]>> # LZWEod THEN Fail(Nil, "unexpected EOF")
    ELSE Ok(SubSeq(e, 1, Len(e) - 1))

\* The rows i, i + 1, ... of the PNG case of LZWEncoder.DecodeStream, which
\* knows the filter bytes 0, 1 and 2.
RECURSIVE LZWPNGRows(_, _, _, _, _)
LZWPNGRows(outData, rowLength, i, prev, acc) ==
    IF i * rowLength >= Len(outData) THEN Ok(acc)
    ELSE The({IF row[1] > 2 THEN Fail(Nil, "Invalid filter byte")
              ELSE The({LZWPNGRows(outData, rowLength, i + 1, done,
                                   acc \o SubSeq(done, 2, rowLength)) :
                        done \in {PNGRow(row, prev)}}) :
              row \in {SubSeq(outData, rowLength * i + 1, rowLength * (i + 1))}})

\* LZWEncoder.DecodeStream, the predictor post-processing of outData.
LZWPostProcess(enc, outData) ==
    IF enc.Predictor <= 1 THEN Ok(outData)
    ELSE IF enc.Predictor = 2
    THEN LET rowLength == enc.Columns * enc.Colors
         IN IF rowLength < 1 THEN Ok(Nil)
            ELSE IF Len(outData) % rowLength # 0 THEN Fail(Nil, "Invalid row length")
            ELSE IF rowLength > Len(outData) THEN Fail(Nil, "Range check error")
            ELSE Ok(TIFFRows(outData, rowLength, enc.Colors, 0))
    ELSE IF enc.Predictor >= 10 /\ enc.Predictor <= 15
    THEN LET rowLength == enc.Columns * enc.Colors + 1
         IN IF rowLength < 1 THEN Ok(Nil)
            ELSE IF Len(outData) % rowLength # 0 THEN Fail(Nil, "Invalid row length")
            ELSE IF rowLength > Len(outData) THEN Fail(Nil, "Range check error")
            ELSE LZWPNGRows(outData, rowLength, 0, Rep(0, rowLength), Nil)
    ELSE Fail(Nil, "Unsupported predictor")

\* LZWEncoder.DecodeStream on a stream whose payload is e.
LZWDecodeStream(enc, e) ==
    The({IF outData.err # NoErr THEN outData
         ELSE LZWPostProcess(enc, outData.out) :
         outData \in {LZWDecodeBytes(enc, e)}})

(***************************************************************************)
(* MultiEncoder                                                            *)
(*                                                                         *)
(* The encoders of a MultiEncoder are a sequence of stages; a stage is the *)
(* filter name of a StreamEncoder and, for FlateDecode and LZWDecode, the  *)
(* encoder's fields. The two loops keep a log of the calls they make: the index of   *)
(* the stage, the bytes handed to it and what it returned.                 *)
(***************************************************************************)

Stage(name, flate) == [name |-> name, flate |-> flate]

\* encoder.DecodeBytes through the StreamEncoder interface
StageDecodeBytes(encoder, e) ==
    CASE encoder.name = "RunLengthDecode" -> RunLengthDecodeBytes(e)
      [] encoder.name = "ASCII85Decode" -> ASCII85DecodeBytes(e)
      [] encoder.name = "FlateDecode" -> FlateDecodeBytes(encoder.flate, e)
      [] encoder.name = "LZWDecode" -> LZWDecodeBytes(encoder.flate, e)

\* encoder.EncodeBytes through the StreamEncoder interface
StageEncodeBytes(encoder, d) ==
    CASE encoder.name = "RunLengthDecode" -> RunLengthEncodeBytes(d)
      [] encoder.name = "ASCII85Decode" -> ASCII85EncodeBytes(d)
      [] encoder.name = "FlateDecode" -> FlateEncodeBytes(encoder.flate, d)
      [] encoder.name = "LZWDecode" -> LZWEncodeBytes(encoder.flate, d)

StageCall(i, in, r) == [stage |-> i, in |-> in, out |-> r.out, err |-> r.err]

MultiResult(out, err, log) == [out |-> out, err |-> err, log |-> log]

\* The loop of MultiEncoder.DecodeBytes from encoder i on.
RECURSIVE MultiDecodeLoop(_, _, _, _)
MultiDecodeLoop(encoders, i, decoded_, log) ==
    IF i > Len(encoders) THEN MultiResult(decoded_, NoErr, log)
    ELSE The({IF r.err # NoErr
              THEN MultiResult(Nil, r.err, Append(log, StageCall(i, decoded_, r)))
              ELSE MultiDecodeLoop(encoders, i + 1, r.out,
                                   Append(log, StageCall(i, decoded_, r))) :
              r \in {StageDecodeBytes(encoders[i], decoded_)}})

\* MultiEncoder.DecodeBytes
MultiDecodeBytes(encoders, e) == MultiDecodeLoop(encoders, 1, e, << >>)

\* MultiEncoder.DecodeStream on a stream whose payload is e.
MultiDecodeStream(encoders, e) == MultiDecodeBytes(encoders, e)

\* The loop of MultiEncoder.EncodeBytes from encoder i down.
RECURSIVE MultiEncodeLoop(_, _, _, _)
MultiEncodeLoop(encoders, i, encoded_, log) ==
    IF i < 1 THEN MultiResult(encoded_, NoErr, log)
    ELSE The({IF r.err # NoErr
              THEN MultiResult(Nil, r.err, Append(log, StageCall(i, encoded_, r)))
              ELSE MultiEncodeLoop(encoders, i - 1, r.out,
                                   Append(log, StageCall(i, encoded_, r))) :
              r \in {StageEncodeBytes(encoders[i], encoded_)}})

\* EncodeBytes with the loop running forward, as DecodeBytes runs.
RECURSIVE MultiEncodeForward(_, _, _, _)
MultiEncodeForward(encoders, i, encoded_, log) ==
    IF i > Len(encoders) THEN MultiResult(encoded_, NoErr, log)
    ELSE The({IF r.err # NoErr
              THEN MultiResult(Nil, r.err, Append(log, StageCall(i, encoded_, r)))
              ELSE MultiEncodeForward(encoders, i + 1, r.out,
                                      Append(log, StageCall(i, encoded_, r))) :
              r \in {StageEncodeBytes(encoders[i], encoded_)}})

MultiEncodeBytesForward(encoders, d) == MultiEncodeForward(encoders, 1, d, << >>)

\* MultiEncoder.EncodeBytes
MultiEncodeBytes(encoders, d) == MultiEncodeLoop(encoders, Len(encoders), d, << >>)

\* newMultiEncoderFromStream on a stream whose Filter is the array names of
\* FlateDecode and LZWDecode and whose DecodeParms is one dictionary, which
\* applies to every filter: dParams are the fields the encoder of a stage
\* is made with.
newMultiEncoderFromStream(names, dParams) ==
    IF \E i \in DOMAIN names : names[i] \notin {"FlateDecode", "LZWDecode"}
    THEN Fail(Nil, "Invalid filter in multi filter array")
    ELSE Ok([i \in DOMAIN names |-> Stage(names[i], dParams)])

(***************************************************************************)
(* The composer scenario: EncodeBytes on X and DecodeBytes on its output,  *)
(* and DecodeBytes on X itself, which the stages may refuse.               *)
(***************************************************************************)

MultiMaxStages == 2
MultiMaxLen == 2
MultiInputs == SeqsUpTo(FlateBytes, MultiMaxLen)

Stages ==
    {Stage("RunLengthDecode", Nil), Stage("ASCII85Decode", Nil),
     Stage("FlateDecode", FlateEncoder(1, 8, 1, 1)),
     Stage("FlateDecode", FlateEncoder(11, 8, 2, 1)),
     Stage("FlateDecode", FlateEncoder(2, 8, 1, 1))}

MultiEncoders == SeqsUpTo(Stages, MultiMaxStages)

InitMulti ==
    /\ crypt = Nil /\ ret = Nil /\ WalkIdle
    /\ pc = "multi_in"
    /\ args \in MultiEncoders
    /\ data \in MultiInputs
    /\ encoded = MultiResult(Nil, NoErr, << >>)
    /\ decoded = MultiResult(Nil, NoErr, << >>)

MultiEncode ==
    /\ pc = "multi_in"
    /\ encoded' = MultiEncodeBytes(args, data)
    /\ pc' = "multi_enc"
    /\ UNCHANGED <<data, decoded, crypt, args, ret, heap, cnt>>

MultiDecode ==
    /\ pc = "multi_enc"
    /\ encoded.err = NoErr
    /\ decoded' = MultiDecodeBytes(args, encoded.out)
    /\ pc' = "multi_dec"
    /\ UNCHANGED <<data, encoded, crypt, args, ret, heap, cnt>>

MultiDecodeData ==
    /\ pc = "multi_in"
    /\ decoded' = MultiDecodeBytes(args, data)
    /\ pc' = "multi_raw"
    /\ UNCHANGED <<data, encoded, crypt, args, ret, heap, cnt>>

NextMulti == MultiEncode \/ MultiDecode \/ MultiDecodeData

SpecMulti == InitMulti /\ [][NextMulti]_vars

(***************************************************************************)
(* The PNG predictor scenario: DecodeStream, with predictor 12, on a       *)
(* stream whose inflated payload is rows of an indicator byte and Columns  *)
(* data bytes; and the row 01 10 00 00 00 with four columns.               *)
(***************************************************************************)

PNGMaxRows == 2
PNGColumns == 2
PNGBytes == {0, 100, 200}
PNGIndicators == 0..4

PNGRowInputs ==
    {<<fb>> \o d : fb \in PNGIndicators,
                   d \in {q \in SeqsUpTo(PNGBytes, PNGColumns) : Len(q) = PNGColumns}}

PNGInputs == {Flatten(rows) : rows \in SeqsUpTo(PNGRowInputs, PNGMaxRows) \ {Nil}}

InitPNG ==
    /\ crypt = Nil /\ ret = Nil /\ WalkIdle
    /\ pc = "png_in"
    /\ \/ args = FlateEncoder(12, 8, PNGColumns, 1) /\ data \in PNGInputs
       \/ args = FlateEncoder(12, 8, 4, 1) /\ data = <<1, 16, 0, 0, 0>>
    /\ encoded = Ok(ZlibWrite(data))
    /\ decoded = Ok(Nil)

PNGDecode ==
    /\ pc = "png_in"
    /\ decoded' = FlateDecodeStream(args, encoded.out)
    /\ pc' = "png_dec"
    /\ UNCHANGED <<data, encoded, crypt, args, ret, heap, cnt>>

NextPNG == PNGDecode

SpecPNG == InitPNG /\ [][NextPNG]_vars

(***************************************************************************)
(* The row scenario: DecodeStream of a flate or an LZW encoder with a      *)
(* predictor on a stream whose decompressed payload is any short byte      *)
(* string, the empty one included, and then DecodeStream of the            *)
(* MultiEncoder made from the same stream with its Filter written as the   *)
(* array of the one name.                                                  *)
(***************************************************************************)

RowsMaxLen == 4
RowsBytes == {0, 1, 3}
RowsInputs == SeqsUpTo(RowsBytes, RowsMaxLen)

RowsEncoders ==
    {[codec |-> "flate", enc |-> FlateEncoder(p, 8, columns, colors)] :
         p \in {2, 12}, columns \in 1..2, colors \in 1..2}
    \cup {[codec |-> "lzw", enc |-> LZWEncoder(p, 8, columns, colors, 1)] :
              p \in {2, 12}, columns \in 1..2, colors \in 1..2}

InitRows ==
    /\ crypt = Nil /\ ret = Nil /\ WalkIdle
    /\ pc = "rows_in"
    /\ args \in RowsEncoders
    /\ data \in RowsInputs
    /\ encoded = Ok(IF args.codec = "flate" THEN ZlibWrite(data) ELSE LZWWrite(data))
    /\ decoded = Ok(Nil)

RowsDecode ==
    /\ pc = "rows_in"
    /\ decoded' = IF args.codec = "flate" THEN FlateDecodeStream(args.enc, encoded.out)
                  ELSE LZWDecodeStream(args.enc, encoded.out)
    /\ pc' = "rows_dec"
    /\ UNCHANGED <<data, encoded, crypt, args, ret, heap, cnt>>

\* The name of the filter of the stream.
RowsFilter == IF args.codec = "flate" THEN "FlateDecode" ELSE "LZWDecode"

RowsMultiDecode ==
    /\ pc = "rows_dec"
    /\ \E m \in {newMultiEncoderFromStream(<<RowsFilter>>, args.enc)} :
           ret' = IF m.err # NoErr THEN MultiResult(Nil, m.err, << >>)
                  ELSE MultiDecodeStream(m.out, encoded.out)
    /\ pc' = "rows_multi"
    /\ UNCHANGED <<data, encoded, decoded, crypt, args, heap, cnt>>

NextRows == RowsDecode \/ RowsMultiDecode

SpecRows == InitRows /\ [][NextRows]_vars

(***************************************************************************)
(* The object graph and the object tree walker (Decrypt, Encrypt)          *)
(*                                                                         *)
(* An object is a record of one shape for every PdfObject type; the fields *)
(* a type does not have are left empty. Objects are named by identity (a   *)
(* number), which is what the memo maps of PdfCrypt are keyed by.          *)
(*   indirect  num, gen, ref (the object held)                             *)
(*   stream    num, gen, ref (its dictionary), bytes (its payload)         *)
(*   string    bytes                                                       *)
(*   array     elems                                                       *)
(*   dict      keys and elems (the values, in key order), len (the integer *)
(*             held under Length, NoLength when absent)                    *)
(*   name      name                                                        *)
(***************************************************************************)

NoLength == -1

Obj(kind, num, gen, ref, bytes, elems, keys, name, len) ==
    [kind |-> kind, num |-> num, gen |-> gen, ref |-> ref, bytes |-> bytes,
     elems |-> elems, keys |-> keys, name |-> name, len |-> len]

Indirect(num, gen, ref) == Obj("indirect", num, gen, ref, Nil, Nil, Nil, "", NoLength)
Stream(num, gen, dict, bytes) == Obj("stream", num, gen, dict, bytes, Nil, Nil, "", NoLength)
String(bytes) == Obj("string", 0, 0, 0, bytes, Nil, Nil, "", NoLength)
Array(elems) == Obj("array", 0, 0, 0, Nil, elems, Nil, "", NoLength)
Dict(keys, elems, len) == Obj("dict", 0, 0, 0, Nil, elems, keys, "", len)
Name(name) == Obj("name", 0, 0, 0, Nil, Nil, Nil, name, NoLength)

\* PdfObjectDictionary.Get: the identity of the value under key, 0 for nil.
DictGet(h, d, key) ==
    LET at == {i \in 1..Len(h[d].keys) : h[d].keys[i] = key}
    IN IF at = {} THEN 0 ELSE h[d].elems[CHOOSE i \in at : TRUE]

IsName(h, id, name) == id # 0 /\ h[id].kind = "name" /\ h[id].name = name

\* The crypt filter a stream is processed with when V >= 4: the document's
\* stream filter, unless the first entry of the stream's Filter array is
\* Crypt. Indexing an empty Filter array panics.
StreamFilterOf(h, cr, dict) ==
    LET filters == DictGet(h, dict, "Filter")
        decodeParams == DictGet(h, dict, "DecodeParms")
        filterName == IF decodeParams # 0 /\ h[decodeParams].kind = "dict"
                      THEN DictGet(h, decodeParams, "Name") ELSE 0
    IN IF filters # 0 /\ h[filters].kind = "array" THEN
           IF Len(h[filters].elems) = 0 THEN Fail("", Panic)
           ELSE IF IsName(h, h[filters].elems[1], "Crypt") THEN
               IF filterName # 0 /\ h[filterName].kind = "name"
                  /\ h[filterName].name \in DOMAIN cr.CryptFilters
               THEN Ok(h[filterName].name)
               ELSE Ok("Identity")
           ELSE Ok(cr.StreamFilter)
       ELSE Ok(cr.StreamFilter)

\* The values of dictionary d with the back-links walked like the others.
DictVisitedBack(h, d) ==
    LET isSig == IsName(h, DictGet(h, d, "Type"), "Sig")
        keep(i) == ~(isSig /\ h[d].keys[i] = "Contents")
        F[i \in 0..Len(h[d].keys)] ==
            IF i = 0 THEN Nil
            ELSE IF keep(i) THEN Append(F[i - 1], h[d].elems[i]) ELSE F[i - 1]
    IN F[Len(h[d].keys)]

\* The values of dictionary d the walker recurses into, in key order: all
\* but Contents when Type is the name Sig, and but Parent, Prev and Last.
DictVisited(h, d) ==
    LET isSig == IsName(h, DictGet(h, d, "Type"), "Sig")
        keep(i) == /\ ~(isSig /\ h[d].keys[i] = "Contents")
                   /\ h[d].keys[i] \notin {"Parent", "Prev", "Last"}
        F[i \in 0..Len(h[d].keys)] ==
            IF i = 0 THEN Nil
            ELSE IF keep(i) THEN Append(F[i - 1], h[d].elems[i]) ELSE F[i - 1]
    IN F[Len(h[d].keys)]

\* The byte transformation of a pass: decryptBytes or encryptBytes.
CryptBytes(mode, cr, buf, filter, okey, iv) ==
    IF mode = "Decrypt" THEN decryptBytes(cr, buf, filter, okey)
    ELSE encryptBytes(cr, buf, filter, okey, iv)

\* What the walker has done, in order: a visit entry for every object a
\* call of Decrypt or Encrypt gets past the memo check with, and a bytes
\* entry for every call of decryptBytes or encryptBytes, with the filter
\* and the object and generation numbers its key was made from, the bytes
\* handed over, the bytes returned and the error.
Visit(id, depth) ==
    [op |-> "visit", id |-> id, depth |-> depth, filter |-> "", num |-> 0,
     gen |-> 0, in |-> Nil, out |-> Nil, err |-> NoErr]

Bytes(id, depth, filter, num, gen, in, r) ==
    [op |-> "bytes", id |-> id, depth |-> depth, filter |-> filter, num |-> num,
     gen |-> gen, in |-> in, out |-> r.out, err |-> r.err]

\* The Go stack runs out: the program ends with a fatal error.
StackOverflow == "stack overflow"

\* The objects of h the memo maps hold once visited.
Memoized(h) == {i \in DOMAIN h : h[i].kind \in {"indirect", "stream"}}

\* No call chain over the objects of h is deeper than this unless it comes
\* back to an array or dictionary with nothing memoized in between, and
\* then it goes round again: a chain passes each memoized object once
\* and, between two of them, each other object once.
MaxDepth(h) ==
    (Cardinality(Memoized(h)) + 1) * (Len(h) - Cardinality(Memoized(h)) + 1)

\* PdfCrypt.Decrypt and PdfCrypt.Encrypt, which are the same traversal around
\* decryptBytes and encryptBytes. w is what a call changes: the objects
\* (heap), the memo map of the pass (memo: DecryptedObjects or
\* EncryptedObjects), the count of byte transformations per object (cnt), the
\* error returned (err), the record of what was done (log) and the depth of
\* the call chain (depth). An entry of the log carries the depth of the
\* call that made it, the call of the caller being at depth 0 and a bytes
\* entry one below the call on its string or stream.
RECURSIVE Walk(_, _, _, _, _, _, _)
RECURSIVE WalkAll(_, _, _, _, _, _, _)

\* The stream branch from makeKey on, the dictionary walked. so.Stream is
\* assigned whatever the error is; a panic assigns nothing.
WalkPayload(mode, cr, iv, w, id, filter) ==
    The({IF okey.err # NoErr THEN [w EXCEPT !.err = okey.err]
         ELSE The({IF r.err = Panic
                   THEN [w EXCEPT !.err = r.err,
                                  !.log = Append(@, Bytes(id, w.depth, filter, w.heap[id].num,
                                                          w.heap[id].gen, w.heap[id].bytes, r))]
                   ELSE [w EXCEPT !.heap[id].bytes = r.out,
                                  !.heap[w.heap[id].ref].len =
                                      IF r.err = NoErr THEN Len(r.out) ELSE @,
                                  !.cnt[id] = @ + 1,
                                  !.log = Append(@, Bytes(id, w.depth, filter, w.heap[id].num,
                                                          w.heap[id].gen, w.heap[id].bytes, r)),
                                  !.err = r.err] :
                   r \in {CryptBytes(mode, cr, w.heap[id].bytes, filter, okey.out, iv)}}) :
         okey \in {makeKey(cr, filter, w.heap[id].num, w.heap[id].gen,
                           cr.EncryptionKey)}})

\* The stream branch.
WalkStream(mode, cr, iv, w, id) ==
    The({IF sf.err # NoErr THEN [w EXCEPT !.memo = @ \cup {id}, !.err = sf.err]
         ELSE IF cr.V >= 4 /\ sf.out = "Identity" THEN [w EXCEPT !.memo = @ \cup {id}]
         ELSE The({IF w2.err # NoErr THEN w2
                   ELSE WalkPayload(mode, cr, iv, w2, id, sf.out) :
                   w2 \in {Walk(mode, cr, iv, [w EXCEPT !.memo = @ \cup {id}],
                                w.heap[id].ref, w.heap[id].num, w.heap[id].gen)}}) :
         sf \in {IF cr.V >= 4 THEN StreamFilterOf(w.heap, cr, w.heap[id].ref)
                 ELSE Ok("Default")}})

\* The string branch from makeKey on with the copy Decrypt has transformed
\* never put in the place of the string.
WalkStringBytesDropped(mode, cr, iv, w, id, parentObjNum, parentGenNum, stringFilter) ==
    The({IF key.err # NoErr THEN [w EXCEPT !.err = key.err]
         ELSE The({[w EXCEPT !.heap[id].bytes = IF r.err = NoErr /\ mode = "Encrypt"
                                                THEN r.out ELSE @,
                             !.cnt[id] = @ + 1,
                             !.log = Append(@, Bytes(id, w.depth, stringFilter, parentObjNum,
                                                     parentGenNum, w.heap[id].bytes, r)),
                             !.err = r.err] :
                   r \in {CryptBytes(mode, cr, w.heap[id].bytes, stringFilter,
                                     key.out, iv)}}) :
         key \in {makeKey(cr, stringFilter, parentObjNum, parentGenNum,
                          cr.EncryptionKey)}})

\* The string branch from makeKey on: the bytes are transformed in a copy
\* that replaces the string when there is no error.
WalkStringBytes(mode, cr, iv, w, id, parentObjNum, parentGenNum, stringFilter) ==
    The({IF key.err # NoErr THEN [w EXCEPT !.err = key.err]
         ELSE The({[w EXCEPT !.heap[id].bytes = IF r.err = NoErr THEN r.out ELSE @,
                             !.cnt[id] = @ + 1,
                             !.log = Append(@, Bytes(id, w.depth, stringFilter, parentObjNum,
                                                     parentGenNum, w.heap[id].bytes, r)),
                             !.err = r.err] :
                   r \in {CryptBytes(mode, cr, w.heap[id].bytes, stringFilter,
                                     key.out, iv)}}) :
         key \in {makeKey(cr, stringFilter, parentObjNum, parentGenNum,
                          cr.EncryptionKey)}})

\* The string filter as the sentence 'default Identity for V<4' has it.
StringFilterIdentity(cr) == IF cr.V >= 4 THEN cr.StringFilter ELSE "Identity"

\* stringFilter of the string branch when it gets to makeKey.
StringFilterOf(cr) == IF cr.V >= 4 THEN cr.StringFilter ELSE "Default"

\* The string branch.
WalkString(mode, cr, iv, w, id, parentObjNum, parentGenNum) ==
    IF cr.V >= 4 /\ cr.StringFilter = "Identity" THEN w
    ELSE WalkStringBytes(mode, cr, iv, w, id, parentObjNum, parentGenNum,
                         StringFilterOf(cr))

\* The indirect object branch with the numbers of the caller passed on.
WalkIndirectParent(mode, cr, iv, w, id, parentObjNum, parentGenNum) ==
    Walk(mode, cr, iv, [w EXCEPT !.memo = @ \cup {id}], w.heap[id].ref,
         parentObjNum, parentGenNum)

\* The indirect object branch: the object held is walked under the numbers
\* of the indirect object.
WalkIndirect(mode, cr, iv, w, id, parentObjNum, parentGenNum) ==
    Walk(mode, cr, iv, [w EXCEPT !.memo = @ \cup {id}], w.heap[id].ref,
         w.heap[id].num, w.heap[id].gen)

\* The branches by the type of the object.
WalkObject(mode, cr, iv, w, id, parentObjNum, parentGenNum) ==
    IF w.heap[id].kind = "indirect"
    THEN WalkIndirect(mode, cr, iv, w, id, parentObjNum, parentGenNum)
    ELSE IF w.heap[id].kind = "stream" THEN WalkStream(mode, cr, iv, w, id)
    ELSE IF w.heap[id].kind = "string"
    THEN WalkString(mode, cr, iv, w, id, parentObjNum, parentGenNum)
    ELSE IF w.heap[id].kind = "array"
    THEN WalkAll(mode, cr, iv, w, w.heap[id].elems, parentObjNum, parentGenNum)
    ELSE IF w.heap[id].kind = "dict"
    THEN WalkAll(mode, cr, iv, w, DictVisited(w.heap, id), parentObjNum, parentGenNum)
    ELSE w

\* One call of Decrypt or Encrypt on object id (0 is the nil object).
Walk(mode, cr, iv, w, id, parentObjNum, parentGenNum) ==
    IF id \in w.memo THEN w
    ELSE IF id = 0 THEN w
    ELSE IF w.depth >= MaxDepth(w.heap) THEN [w EXCEPT !.err = StackOverflow]
    ELSE The({[r EXCEPT !.depth = w.depth] :
              r \in {WalkObject(mode, cr, iv,
                                [w EXCEPT !.depth = @ + 1,
                                          !.log = Append(@, Visit(id, w.depth))],
                                id, parentObjNum, parentGenNum)}})

\* The loop over the elements of an array or the values of a dictionary
\* with no return at an error.
WalkAllOn(mode, cr, iv, w, ids, parentObjNum, parentGenNum) ==
    IF ids = Nil THEN w
    ELSE WalkAll(mode, cr, iv,
                 Walk(mode, cr, iv, [w EXCEPT !.err = NoErr], Head(ids),
                      parentObjNum, parentGenNum),
                 Tail(ids), parentObjNum, parentGenNum)

\* The loop over the elements of an array or the values of a dictionary: it
\* returns at the first error.
WalkAll(mode, cr, iv, w, ids, parentObjNum, parentGenNum) ==
    IF ids = Nil THEN w
    ELSE The({IF w1.err # NoErr THEN w1
              ELSE WalkAll(mode, cr, iv, w1, Tail(ids), parentObjNum, parentGenNum) :
              w1 \in {Walk(mode, cr, iv, w, Head(ids), parentObjNum, parentGenNum)}})

\* What a call starts from: the objects, the memo map and the counts as
\* they stand.
WalkStart(h, memo, c) ==
    [heap |-> h, memo |-> memo, cnt |-> c, err |-> NoErr, log |-> << >>, depth |-> 0]

\* PdfCrypt.Decrypt(obj, parentObjNum, parentGenNum)
Decrypt(cr, h, c, obj, parentObjNum, parentGenNum) ==
    Walk("Decrypt", cr, Nil, WalkStart(h, cr.DecryptedObjects, c),
         obj, parentObjNum, parentGenNum)

\* PdfCrypt.Encrypt(obj, parentObjNum, parentGenNum); iv is what rand.Reader
\* delivers to encryptBytes during the call.
Encrypt(cr, h, c, iv, obj, parentObjNum, parentGenNum) ==
    Walk("Encrypt", cr, iv, WalkStart(h, cr.EncryptedObjects, c),
         obj, parentObjNum, parentGenNum)

(***************************************************************************)
(* The PdfCrypt value                                                      *)
(***************************************************************************)

\* The PdfCrypt value PdfCryptMakeNew returns for the entries given: the
\* memo sets empty, not authenticated, no key yet.
NewCrypt(v, r, length, o, u, oe, ue, perms, p, em, id0, filters, stmf, strf) ==
    [V |-> v, R |-> r, Length |-> length, O |-> o, U |-> u, OE |-> oe, UE |-> ue,
     Perms |-> perms, P |-> p, EncryptMetadata |-> em, Id0 |-> id0,
     CryptFilters |-> filters, StreamFilter |-> stmf, StringFilter |-> strf,
     EncryptionKey |-> Nil, Authenticated |-> FALSE,
     DecryptedObjects |-> {}, EncryptedObjects |-> {}]

\* A V = 4 handler with the registry above and the filters named.
CryptV4(stmf, strf) ==
    NewCrypt(4, 4, 128, Nil, Nil, Nil, Nil, Nil, -4, TRUE, Nil,
             CryptFiltersV4, stmf, strf)

CodecIdle == data = Nil /\ encoded = Ok(Nil) /\ decoded = Ok(Nil)

(***************************************************************************)
(* PdfCryptMakeNew and LoadCryptFilters                                    *)
(*                                                                         *)
(* A dictionary is a record of its entries, each entry being None when the *)
(* key is absent or holds an object of another type than the code asserts, *)
(* and Some(v) when it holds v. The CF dictionary is the sequence of its   *)
(* entries [name, dict], in key order, dict being None when the value is   *)
(* no dictionary, and objects are taken as already resolved.               *)
(***************************************************************************)

None == << >>
Some(v) == <<v>>
Has(o) == Len(o) = 1
Val(o) == o[1]

\* PdfCrypt{} with the memo maps made
BlankCrypt ==
    NewCrypt(0, 0, 0, Nil, Nil, Nil, Nil, Nil, 0, FALSE, Nil, << >>, "", "")

\* crypt.CryptFilters[name] = cf
SetFilter(filters, name, cf) ==
    [n \in DOMAIN filters \cup {name} |-> IF n = name THEN cf ELSE filters[n]]

\* The Length of one CF entry with every multiple of 8 from 40 to 128 taken
\* as a number of bits.
CryptFilterLengthBits(dict, cfm) ==
    IF ~Has(dict.Length) THEN Ok(0)
    ELSE IF Val(dict.Length) % 8 # 0
    THEN Fail(0, "Crypt filter length not multiple of 8")
    ELSE IF Val(dict.Length) < 5 \/ Val(dict.Length) > 16
    THEN IF Val(dict.Length) >= 40 /\ Val(dict.Length) <= 128
         THEN Ok(Val(dict.Length) \div 8)
         ELSE IF ~(Val(dict.Length) = 32 /\ cfm = CryptFilterAESV3)
         THEN Fail(0, "Crypt filter length not in range 40 - 128 bit")
         ELSE Ok(Val(dict.Length))
    ELSE Ok(Val(dict.Length))

\* LoadCryptFilters, the Length of one CF entry (cf.Length is 0 without it).
CryptFilterLength(dict, cfm) ==
    IF ~Has(dict.Length) THEN Ok(0)
    ELSE IF Val(dict.Length) % 8 # 0
    THEN Fail(0, "Crypt filter length not multiple of 8")
    ELSE IF Val(dict.Length) < 5 \/ Val(dict.Length) > 16
    THEN IF Val(dict.Length) = 64 \/ Val(dict.Length) = 128
         THEN Ok(Val(dict.Length) \div 8)
         ELSE IF ~(Val(dict.Length) = 32 /\ cfm = CryptFilterAESV3)
         THEN Fail(0, "Crypt filter length not in range 40 - 128 bit")
         ELSE Ok(Val(dict.Length))
    ELSE Ok(Val(dict.Length))

\* LoadCryptFilters, one entry of the CF dictionary.
CryptFilterEntry(filters, e) ==
    IF ~Has(e.dict) THEN Fail(filters, "Invalid dict in CF")
    ELSE IF e.name = "Identity" THEN Ok(filters)
    ELSE IF Has(Val(e.dict).Type) /\ Val(Val(e.dict).Type) # "CryptFilter"
    THEN Fail(filters, "CF dict type != CryptFilter")
    ELSE IF ~Has(Val(e.dict).CFM) THEN Fail(filters, "Unsupported crypt filter (None)")
    ELSE IF Val(Val(e.dict).CFM) \notin {CryptFilterV2, CryptFilterAESV2, CryptFilterAESV3}
    THEN Fail(filters, "Unsupported crypt filter")
    ELSE The({IF l.err # NoErr THEN Fail(filters, l.err)
              ELSE Ok(SetFilter(filters, e.name,
                                CryptFilter(Val(Val(e.dict).CFM), l.out))) :
              l \in {CryptFilterLength(Val(e.dict), Val(Val(e.dict).CFM))}})

\* LoadCryptFilters, the loop over the entries of the CF dictionary.
RECURSIVE CryptFilterEntries(_, _, _)
CryptFilterEntries(filters, cf, i) ==
    IF i > Len(cf) THEN Ok(filters)
    ELSE The({IF r.err # NoErr THEN r ELSE CryptFilterEntries(r.out, cf, i + 1) :
              r \in {CryptFilterEntry(filters, cf[i])}})

\* StrF or StmF taken as it stands, in the registry or not.
NamedFilterUnchecked(filters, name, which) ==
    IF ~Has(name) THEN Ok("Identity") ELSE Ok(Val(name))

\* LoadCryptFilters, StrF or StmF: the name of a registry entry, Identity
\* when absent.
NamedFilter(filters, name, which) ==
    IF ~Has(name) THEN Ok("Identity")
    ELSE IF Val(name) \notin DOMAIN filters
    THEN Fail("Identity", "Crypt filter for " \o which \o " not specified in CF dictionary")
    ELSE Ok(Val(name))

\* PdfCrypt.LoadCryptFilters
LoadCryptFilters(cr, ed) ==
    IF ~Has(ed.CF) THEN Fail([cr EXCEPT !.CryptFilters = << >>], "Invalid CF")
    ELSE The({IF fs.err # NoErr THEN Fail([cr EXCEPT !.CryptFilters = fs.out], fs.err)
              ELSE The({The({IF strf.err # NoErr
                             THEN Fail([cr EXCEPT !.CryptFilters = filters,
                                                  !.StringFilter = strf.out], strf.err)
                             ELSE IF stmf.err # NoErr
                             THEN Fail([cr EXCEPT !.CryptFilters = filters,
                                                  !.StringFilter = strf.out,
                                                  !.StreamFilter = stmf.out], stmf.err)
                             ELSE Ok([cr EXCEPT !.CryptFilters = filters,
                                                !.StringFilter = strf.out,
                                                !.StreamFilter = stmf.out]) :
                             strf \in {NamedFilter(filters, ed.StrF, "StrF")},
                             stmf \in {NamedFilter(filters, ed.StmF, "StmF")}}) :
                        filters \in {SetFilter(fs.out, "Identity", CryptFilter("", 0))}}) :
              fs \in {CryptFilterEntries(<< >>, Val(ed.CF), 1)}})

\* PdfCryptMakeNew: Filter
MakeNewFilter(cr, ed) ==
    IF ~Has(ed.Filter) THEN Fail(cr, "Required crypt field Filter missing")
    ELSE IF Val(ed.Filter) # "Standard" THEN Fail(cr, "Unsupported Filter")
    ELSE Ok(cr)

\* PdfCryptMakeNew: Length
MakeNewLength(cr, ed) ==
    IF Has(ed.Length)
    THEN IF Val(ed.Length) % 8 # 0 THEN Fail(cr, "Invalid encryption length")
         ELSE Ok([cr EXCEPT !.Length = Val(ed.Length)])
    ELSE Ok([cr EXCEPT !.Length = 40])

\* PdfCryptMakeNew: V and the crypt filters
MakeNewV(cr, ed) ==
    IF Has(ed.V)
    THEN IF Val(ed.V) >= 1 /\ Val(ed.V) <= 2
         THEN Ok([cr EXCEPT !.V = Val(ed.V),
                            !.CryptFilters = CryptFiltersV2(cr.Length)])
         ELSE IF Val(ed.V) >= 4 /\ Val(ed.V) <= 5
         THEN LoadCryptFilters([cr EXCEPT !.V = Val(ed.V)], ed)
         ELSE Fail(cr, "Unsupported algorithm")
    ELSE Ok([cr EXCEPT !.V = 0])

\* PdfCryptMakeNew: R
MakeNewR(cr, ed) ==
    IF ~Has(ed.R) THEN Fail(cr, "Encrypt dictionary missing R")
    ELSE IF Val(ed.R) < 2 \/ Val(ed.R) > 6 THEN Fail(cr, "Invalid R")
    ELSE Ok([cr EXCEPT !.R = Val(ed.R)])

\* PdfCryptMakeNew: O
MakeNewO(cr, ed) ==
    IF ~Has(ed.O) THEN Fail(cr, "Encrypt dictionary missing O")
    ELSE IF cr.R \in {5, 6} /\ Len(Val(ed.O)) < 48 THEN Fail(cr, "Length(O) < 48")
    ELSE IF cr.R \notin {5, 6} /\ Len(Val(ed.O)) # 32 THEN Fail(cr, "Length(O) != 32")
    ELSE Ok([cr EXCEPT !.O = Val(ed.O)])

\* PdfCryptMakeNew: U (for R <= 4 any length passes)
MakeNewU(cr, ed) ==
    IF ~Has(ed.U) THEN Fail(cr, "Encrypt dictionary missing U")
    ELSE IF cr.R \in {5, 6} /\ Len(Val(ed.U)) < 48 THEN Fail(cr, "Length(U) < 48")
    ELSE Ok([cr EXCEPT !.U = Val(ed.U)])

\* PdfCryptMakeNew: OE and UE (R >= 5)
MakeNewOEUE(cr, ed) ==
    IF cr.R < 5 THEN Ok(cr)
    ELSE IF ~Has(ed.OE) THEN Fail(cr, "Encrypt dictionary missing OE")
    ELSE IF Len(Val(ed.OE)) # 32 THEN Fail(cr, "Length(OE) != 32")
    ELSE IF ~Has(ed.UE) THEN Fail([cr EXCEPT !.OE = Val(ed.OE)],
                                  "Encrypt dictionary missing UE")
    ELSE IF Len(Val(ed.UE)) # 32 THEN Fail([cr EXCEPT !.OE = Val(ed.OE)],
                                           "Length(UE) != 32")
    ELSE Ok([cr EXCEPT !.OE = Val(ed.OE), !.UE = Val(ed.UE)])

\* PdfCryptMakeNew: P
MakeNewP(cr, ed) ==
    IF ~Has(ed.P) THEN Fail(cr, "Encrypt dictionary missing permissions attr")
    ELSE Ok([cr EXCEPT !.P = Val(ed.P)])

\* PdfCryptMakeNew: Perms (R = 6)
MakeNewPerms(cr, ed) ==
    IF cr.R # 6 THEN Ok(cr)
    ELSE IF ~Has(ed.Perms) THEN Fail(cr, "Encrypt dictionary missing Perms")
    ELSE IF Len(Val(ed.Perms)) # 16 THEN Fail(cr, "Length(Perms) != 16")
    ELSE Ok([cr EXCEPT !.Perms = Val(ed.Perms)])

\* PdfCryptMakeNew: EncryptMetadata, true by default
MakeNewEncryptMetadata(cr, ed) ==
    Ok([cr EXCEPT !.EncryptMetadata =
           IF Has(ed.EncryptMetadata) THEN Val(ed.EncryptMetadata) ELSE TRUE])

\* PdfCryptMakeNew: the first element of the trailer's ID array, the empty
\* string when there is no array or the array is empty. An element of the
\* array is Some(bytes) when it is a string and None when it is not.
MakeNewId0(cr, trailer) ==
    IF Has(trailer.ID) /\ Len(Val(trailer.ID)) >= 1
    THEN IF ~Has(Val(trailer.ID)[1]) THEN Fail(cr, "Invalid trailer ID")
         ELSE Ok([cr EXCEPT !.Id0 = Val(Val(trailer.ID)[1])])
    ELSE Ok([cr EXCEPT !.Id0 = Nil])

\* PdfCryptMakeNew: its k-th step on the crypter built so far.
MakeNewStep(k, cr, ed, trailer) ==
    CASE k = 1 -> MakeNewFilter(cr, ed)
      [] k = 2 -> MakeNewLength(cr, ed)
      [] k = 3 -> MakeNewV(cr, ed)
      [] k = 4 -> MakeNewR(cr, ed)
      [] k = 5 -> MakeNewO(cr, ed)
      [] k = 6 -> MakeNewU(cr, ed)
      [] k = 7 -> MakeNewOEUE(cr, ed)
      [] k = 8 -> MakeNewP(cr, ed)
      [] k = 9 -> MakeNewPerms(cr, ed)
      [] k = 10 -> MakeNewEncryptMetadata(cr, ed)
      [] k = 11 -> MakeNewId0(cr, trailer)

\* PdfCryptMakeNew from its k-th step on: it returns at the first error.
RECURSIVE MakeNewFrom(_, _, _, _)
MakeNewFrom(k, r, ed, trailer) ==
    IF r.err # NoErr \/ k > 11 THEN r
    ELSE MakeNewFrom(k + 1, MakeNewStep(k, r.out, ed, trailer), ed, trailer)

\* PdfCryptMakeNew: the crypter it returns and its error.
PdfCryptMakeNew(ed, trailer) == MakeNewFrom(1, Ok(BlankCrypt), ed, trailer)

(***************************************************************************)
(* Passwords, key derivation and authentication                           *)
(*                                                                         *)
(* An operation that can change the PdfCrypt value returns it as cr beside *)
(* its Go results. A local value that is used more than once is bound     *)
(* with The: The({e : x \in {v}}) is e with x standing for the value of v. *)
(***************************************************************************)

padding ==
    <<40, 191, 78, 94, 78, 117, 138, 65, 100, 0, 78, 86, 255,
      250, 1, 8, 46, 46, 0, 182, 208, 104, 62, 128, 47, 12,
      169, 254, 100, 83, 105, 122>>

\* x[0:n] on a slice whose capacity is its length
Slice(x, n) ==
    IF n < 0 \/ n > Len(x) THEN Fail(Nil, Panic) ELSE Ok(SubSeq(x, 1, n))

\* x[a:b], both within the slice
Cut(x, a, b) == SubSeq(x, a + 1, b)

\* PdfCrypt.paddedPass
paddedPass(pass) ==
    IF Len(pass) >= 32 THEN SubSeq(pass, 1, 32)
    ELSE pass \o SubSeq(padding, 1, 32 - Len(pass))

\* k times: hashb = MD5(hashb[0:n])
RECURSIVE MD5Times(_, _, _)
MD5Times(hashb, n, k) ==
    IF k = 0 THEN hashb
    ELSE IF k = 1 THEN MD5(SubSeq(hashb, 1, n))
    ELSE The({MD5Times(half, n, k - (k \div 2)) :
              half \in {MD5Times(hashb, n, k \div 2)}})

\* key[j] ^ byte(c) for every j
XorKey(key, c) == [j \in 1..Len(key) |-> Xor(key[j], c)]

\* buf passed through RC4 under key ^ i, key ^ (i + 1), ..., key ^ last
RECURSIVE RC4Up(_, _, _, _)
RC4Up(key, buf, i, last) ==
    IF i > last THEN buf
    ELSE The({RC4Up(key, out, i + 1, last) : out \in {RC4(XorKey(key, i), buf)}})

\* buf passed through RC4 under key ^ i, key ^ (i - 1), ..., key ^ 0
RECURSIVE RC4Down(_, _, _)
RC4Down(key, buf, i) ==
    IF i < 0 THEN buf
    ELSE The({RC4Down(key, out, i - 1) : out \in {RC4(XorKey(key, i), buf)}})

\* Alg2 with the result cut to five bytes whatever R is.
Alg2FiveBytes(cr, pass) ==
    Slice(MD5(paddedPass(pass) \o cr.O \o LowBytesLE(cr.P, 4) \o cr.Id0), 5)

\* PdfCrypt.Alg2: the encryption key of a password (R <= 4).
Alg2(cr, pass) ==
    LET meta == IF cr.R >= 4 /\ ~cr.EncryptMetadata
                THEN <<255, 255, 255, 255>> ELSE Nil
        n == cr.Length \div 8
    IN The({IF cr.R >= 3
            THEN IF n < 0 \/ n > 16 THEN Fail(Nil, Panic)
                 ELSE Slice(MD5Times(hashb, n, 50), n)
            ELSE Slice(hashb, 5) :
            hashb \in {MD5(paddedPass(pass) \o cr.O \o LowBytesLE(cr.P, 4)
                           \o cr.Id0 \o meta)}})

\* PdfCrypt.alg3Key: the RC4 key made from the owner password.
alg3Key(cr, pass) ==
    The({IF cr.R = 2 THEN Slice(encKey, 5) ELSE Slice(encKey, cr.Length \div 8) :
         encKey \in {IF cr.R >= 3 THEN MD5Times(MD5(paddedPass(pass)), 16, 50)
                     ELSE MD5(paddedPass(pass))}})

\* PdfCrypt.Alg3: the O entry for a user and an owner password.
Alg3(cr, upass, opass) ==
    The({IF encKey.err # NoErr THEN encKey
         ELSE IF ~RC4KeyOk(encKey.out) THEN Fail(Nil, "Failed rc4 ciph")
         ELSE IF cr.R >= 3
         THEN Ok(RC4Up(encKey.out, RC4(encKey.out, paddedPass(upass)), 1, 19))
         ELSE Ok(RC4(encKey.out, paddedPass(upass))) :
         encKey \in {IF Len(opass) > 0 THEN alg3Key(cr, opass)
                     ELSE alg3Key(cr, upass)}})

\* PdfCrypt.Alg4: the U entry and the key of a user password (R = 2).
\* out is U, key the second result.
Alg4(cr, upass) ==
    The({IF ekey.err # NoErr THEN [out |-> Nil, key |-> Nil, err |-> ekey.err]
         ELSE IF ~RC4KeyOk(ekey.out)
         THEN [out |-> Nil, key |-> ekey.out, err |-> "Failed rc4 ciph"]
         ELSE [out |-> RC4(ekey.out, padding), key |-> ekey.out, err |-> NoErr] :
         ekey \in {Alg2(cr, upass)}})

\* PdfCrypt.Alg5: the U entry and the key of a user password (R >= 3); tail
\* is the 16 bytes rand.Read delivers.
Alg5(cr, upass, tail) ==
    The({IF ekey.err # NoErr THEN [out |-> Nil, key |-> Nil, err |-> ekey.err]
         ELSE IF ~RC4KeyOk(ekey.out)
         THEN [out |-> Nil, key |-> ekey.out, err |-> "Failed rc4 ciph"]
         ELSE [out |-> RC4Up(ekey.out, RC4(ekey.out, MD5(padding \o cr.Id0)),
                             1, 19) \o tail,
               key |-> ekey.out, err |-> NoErr] :
         ekey \in {Alg2(cr, upass)}})

\* What an authentication step returns: its bool, its error and the PdfCrypt
\* value it leaves.
Res(ok, err, cr) == [ok |-> ok, err |-> err, cr |-> cr]

\* s[0:16] when s is longer than 16 bytes
First16(s) == IF Len(s) > 16 THEN SubSeq(s, 1, 16) ELSE s

\* PdfCrypt.Alg6: authenticates the user password. Of the U that Alg5 makes
\* only the first 16 bytes are compared, so the random tail plays no part.
Alg6(cr, upass) ==
    IF cr.R < 2 THEN Res(FALSE, "invalid R", cr)
    ELSE The({IF g.err # NoErr THEN Res(FALSE, g.err, cr)
              ELSE IF (IF cr.R >= 3 THEN First16(g.out) = First16(cr.U)
                       ELSE g.out = cr.U)
              THEN Res(TRUE, NoErr, [cr EXCEPT !.EncryptionKey = g.key])
              ELSE Res(FALSE, NoErr, cr) :
              g \in {IF cr.R = 2 THEN Alg4(cr, upass)
                     ELSE Alg5(cr, upass, Rep(0, 16))}})

\* PdfCrypt.Alg7: authenticates the owner password.
Alg7(cr, opass) ==
    The({IF encKey.err # NoErr THEN Res(FALSE, encKey.err, cr)
         ELSE IF cr.R < 2 THEN Res(FALSE, "invalid R", cr)
         ELSE IF ~RC4KeyOk(encKey.out) THEN Res(FALSE, "Failed cipher", cr)
         ELSE The({IF auth.err = Panic THEN auth
                   ELSE IF auth.err # NoErr THEN Res(FALSE, NoErr, auth.cr)
                   ELSE auth :
                   auth \in {Alg6(cr, IF cr.R = 2 THEN RC4(encKey.out, cr.O)
                                      ELSE RC4Down(encKey.out, cr.O, 19))}}) :
         encKey \in {alg3Key(cr, opass)}})

\* alg2b_R5: one SHA-256 of the data.
alg2bR5(input) == SHA256(input)

\* One round of alg2b (R = 6). The round buffer holds 64 x (127 + 64 + 48)
\* bytes and a round slices 64 x n of them, n = len(pwd) + len(K) +
\* len(userKey). The ciphertext E of a round is stood for by the number e
\* that depends on pwd, K and userKey: the sum of its first 16 bytes mod 3
\* selects the next hash (SHA-256, SHA-384, SHA-512, of 32, 48 and 64
\* bytes), its last byte decides the exit. In the state of the loop h
\* stands for K, klen is len(K), i counts the rounds done, err is set by
\* a slice out of range and done by the break.
alg2bStep(lens, st, e) ==
    LET n == lens + st.klen
        sel == e % 3
        b == (e \div 3) % 256
        i == st.i + 1
    IN IF st.done \/ st.err # NoErr THEN st
       ELSE IF n > 127 + 64 + 48 THEN [st EXCEPT !.err = Panic]
       ELSE [h |-> (e * 131 + sel + 1) % 1000003,
             klen |-> IF sel = 0 THEN 32 ELSE IF sel = 1 THEN 48 ELSE 64,
             i |-> i,
             done |-> i >= 64 /\ b <= (i - 32) % 256,
             err |-> NoErr]

\* One round on the ciphertext that pwd, K and userKey give.
alg2bRound(pwdKey, lens, st) ==
    alg2bStep(lens, st, (st.h * 31 + pwdKey * 7 + st.i) % 1000003)

\* The rounds lo..hi of the loop, half by half.
RECURSIVE alg2bRounds(_, _, _, _, _)
alg2bRounds(pwdKey, lens, st, lo, hi) ==
    IF lo = hi THEN alg2bRound(pwdKey, lens, st)
    ELSE The({IF left.done \/ left.err # NoErr THEN left
              ELSE alg2bRounds(pwdKey, lens, left, ((lo + hi) \div 2) + 1, hi) :
              left \in {alg2bRounds(pwdKey, lens, st, lo, (lo + hi) \div 2)}})

\* alg2b (R = 6). Round 287 always breaks: uint8(287 - 32) is 255.
alg2bR6(input, pwd, userKey) ==
    The({IF st.err # NoErr THEN Fail(Nil, st.err)
         ELSE Ok(SubSeq(Digest(256, st.klen, LowBytesLE(st.h, 3)), 1, 32)) :
         st \in {alg2bRounds(Absorb(pwd \o userKey, 1, 6),
                             Len(pwd) + Len(userKey),
                             [h |-> Absorb(input, 1, 256), klen |-> 32, i |-> 0,
                              done |-> FALSE, err |-> NoErr],
                             1, 287)}})

\* PdfCrypt.alg2b: the hash of R = 5 and R = 6.
alg2b(cr, input, pwd, userKey) ==
    IF cr.R = 5 THEN Ok(alg2bR5(input)) ELSE alg2bR6(input, pwd, userKey)

\* PdfCrypt.alg11: authenticates the user password (R >= 5); returns the hash
\* or nil.
alg11(cr, upass) ==
    The({IF h.err # NoErr THEN h
         ELSE IF h.out # Cut(cr.U, 0, 32) THEN Ok(Nil)
         ELSE h :
         h \in {alg2b(cr, upass \o Cut(cr.U, 32, 40), upass, Nil)}})

\* PdfCrypt.alg12: authenticates the owner password (R >= 5); returns the
\* hash or nil.
alg12(cr, opass) ==
    The({IF h.err # NoErr THEN h
         ELSE IF h.out # Cut(cr.O, 0, 32) THEN Ok(Nil)
         ELSE h :
         h \in {alg2b(cr, opass \o Cut(cr.O, 32, 40) \o Cut(cr.U, 0, 48),
                      opass, Cut(cr.U, 0, 48))}})

\* The ECB wrapper around the block cipher: every block on its own.
RECURSIVE ECBDecrypt(_, _)
ECBDecrypt(key, buf) ==
    IF Len(buf) = 0 THEN Nil
    ELSE AESDecryptBlock(key, Block(buf, 1))
         \o ECBDecrypt(key, SubSeq(buf, AESBlockSize + 1, Len(buf)))

\* int(int32(binary.LittleEndian.Uint32(b)))
Int32LE(b) ==
    b[1] + b[2] * 256 + b[3] * 65536
    + (IF b[4] >= 128 THEN b[4] - 256 ELSE b[4]) * 16777216

Adb == <<97, 100, 98>>   \* "adb"

\* PdfCrypt.alg13: validates P against Perms (R = 6). perms is a slice of
\* crypt.Perms and CryptBlocks decrypts it in place.
alg13(cr, fkey) ==
    The({The({IF Cut(perms, 9, 12) # Adb
              THEN Res(FALSE, "decoded permissions are invalid", cr1)
              ELSE IF Int32LE(Cut(perms, 0, 4)) # cr.P
              THEN Res(FALSE, "permissions validation failed", cr1)
              ELSE Res(TRUE, NoErr, cr1) :
              cr1 \in {[cr EXCEPT !.Perms =
                           perms \o Cut(cr.Perms, 16, Len(cr.Perms))]}}) :
         perms \in {ECBDecrypt(Cut(fkey, 0, 32), Cut(cr.Perms, 0, 16))}})

\* alg2a from the intermediate key on: ekey is OE or UE, str the data to
\* hash, ukey the user key (set for the owner's password only).
alg2aKey(cr, pass, str, ekey, ukey) ==
    The({IF ikey.err # NoErr THEN Res(FALSE, ikey.err, cr)
         ELSE The({IF cr.R = 5 THEN Res(TRUE, NoErr, [cr EXCEPT !.EncryptionKey = fkey])
                   ELSE alg13([cr EXCEPT !.EncryptionKey = fkey], fkey) :
                   fkey \in {CBCDecrypt(Cut(ikey.out, 0, 32), Rep(0, AESBlockSize),
                                        Cut(ekey, 0, 32))}}) :
         ikey \in {alg2b(cr, str, pass, ukey)}})

\* alg2a once the owner check has failed: the user password, then the
\* default password.
alg2aUser(cr, pass) ==
    The({The({IF h.err # NoErr THEN Res(FALSE, h.err, cr)
              ELSE IF Len(h.out) = 0 THEN Res(FALSE, NoErr, cr)
              ELSE alg2aKey(cr, pass, pass \o Cut(cr.U, 40, 48), cr.UE, Nil) :
              h \in {IF h1.err = NoErr /\ Len(h1.out) = 0 THEN alg11(cr, Nil)
                     ELSE h1}}) :
         h1 \in {alg11(cr, pass)}})

\* alg2a on the password cut to 127 bytes.
alg2aPass(cr, pass) ==
    The({IF h.err # NoErr THEN Res(FALSE, h.err, cr)
         ELSE IF Len(h.out) # 0
         THEN alg2aKey(cr, pass, pass \o Cut(cr.O, 40, 48) \o Cut(cr.U, 0, 48),
                       cr.OE, Cut(cr.U, 0, 48))
         ELSE alg2aUser(cr, pass) :
         h \in {alg12(cr, pass)}})

\* PdfCrypt.alg2a: retrieves the encryption key (R >= 5).
alg2a(cr, password) ==
    alg2aPass(cr, IF Len(password) > 127 THEN SubSeq(password, 1, 127)
                  ELSE password)

\* PdfCrypt.authenticate
authenticate(cr, password) ==
    IF cr.R >= 5
    THEN The({IF a.err # NoErr THEN Res(FALSE, a.err, a.cr)
              ELSE Res(a.ok, NoErr, [a.cr EXCEPT !.Authenticated = a.ok]) :
              a \in {alg2a([cr EXCEPT !.Authenticated = FALSE], password)}})
    ELSE The({IF u.err # NoErr THEN Res(FALSE, u.err, u.cr)
              ELSE IF u.ok THEN Res(TRUE, NoErr, [u.cr EXCEPT !.Authenticated = TRUE])
              ELSE The({IF o.err # NoErr THEN Res(FALSE, o.err, o.cr)
                        ELSE IF o.ok
                        THEN Res(TRUE, NoErr, [o.cr EXCEPT !.Authenticated = TRUE])
                        ELSE Res(FALSE, NoErr, o.cr) :
                        o \in {Alg7(u.cr, password)}}) :
              u \in {Alg6([cr EXCEPT !.Authenticated = FALSE], password)}})

\* AccessPermissions
AccessPermissions(printing, modify, extract, annotate, fill, disability, rotate, full) ==
    [Printing |-> printing, Modify |-> modify,
     ExtractGraphics |-> extract, Annotate |-> annotate,
     FillForms |-> fill, DisabilityExtract |-> disability,
     RotateInsert |-> rotate, FullPrintQuality |-> full]

\* AccessPermissions{}
NoPermissions ==
    AccessPermissions(FALSE, FALSE, FALSE, FALSE, FALSE, FALSE, FALSE, FALSE)

\* P & (1 << k) > 0 on the two's complement of P
HasBit(P, k) == (P \div (2 ^ k)) % 2 = 1

\* GetAccessPermissions reading every flag one bit higher.
GetAccessPermissionsShifted(cr) ==
    AccessPermissions(HasBit(cr.P, 3), HasBit(cr.P, 4), HasBit(cr.P, 5),
                      HasBit(cr.P, 6), HasBit(cr.P, 9), HasBit(cr.P, 10),
                      HasBit(cr.P, 11), HasBit(cr.P, 12))

\* PdfCrypt.GetAccessPermissions
GetAccessPermissions(cr) ==
    AccessPermissions(HasBit(cr.P, 2), HasBit(cr.P, 3), HasBit(cr.P, 4),
                      HasBit(cr.P, 5), HasBit(cr.P, 8), HasBit(cr.P, 9),
                      HasBit(cr.P, 10), HasBit(cr.P, 11))

\* What checkAccessRights returns, and the PdfCrypt value it leaves.
Rights(ok, perms, err, cr) == [ok |-> ok, perms |-> perms, err |-> err, cr |-> cr]

\* The hash alg11 or alg12 returns, as the (bool, error) of the check.
HashFound(h, cr) == Res(h.err = NoErr /\ Len(h.out) # 0, h.err, cr)

\* PdfCrypt.checkAccessRights
checkAccessRights(cr, password) ==
    The({IF o.err # NoErr THEN Rights(FALSE, NoPermissions, o.err, o.cr)
         ELSE IF o.ok
         THEN Rights(TRUE, AccessPermissions(TRUE, TRUE, TRUE, TRUE, TRUE, TRUE,
                                             TRUE, TRUE), NoErr, o.cr)
         ELSE The({IF u.err # NoErr THEN Rights(FALSE, NoPermissions, u.err, u.cr)
                   ELSE IF u.ok
                   THEN Rights(TRUE, GetAccessPermissions(u.cr), NoErr, u.cr)
                   ELSE Rights(FALSE, NoPermissions, NoErr, u.cr) :
                   u \in {IF cr.R >= 5 THEN HashFound(alg11(o.cr, password), o.cr)
                          ELSE Alg6(o.cr, password)}}) :
         o \in {IF cr.R >= 5 THEN HashFound(alg12(cr, password), cr)
                ELSE Alg7(cr, password)}})

(***************************************************************************)
(* The makeKey scenario: one call of makeKey.                              *)
(***************************************************************************)

\* The document key 00 01 02 ... of n bytes, each byte raised by d.
KeyOfLen(n, d) == [i \in 1..n |-> (i - 1 + d) % 256]

KeyLens == {5, 10, 11, 16, 32}
ObjNums == {7, 16909060}      \* 7 and 0x01020304
GenNums == {0, 66051}         \* 0 and 0x010203

InitKey ==
    /\ pc = "key_in"
    /\ crypt = CryptV4("StdCF", "StdCF")
    /\ args \in [filter : {"StdCF", "AESCF", "AES3CF", "NoSuchCF"},
                 objNum : ObjNums, genNum : GenNums,
                 ekey : {KeyOfLen(n, d) : n \in KeyLens, d \in {0, 1}}]
    /\ ret = Ok(Nil)
    /\ CodecIdle /\ WalkIdle

MakeKeyCall ==
    /\ pc = "key_in"
    /\ ret' = makeKey(crypt, args.filter, args.objNum, args.genNum, args.ekey)
    /\ pc' = "key_done"
    /\ UNCHANGED <<data, encoded, decoded, crypt, args, heap, cnt>>

NextKey == MakeKeyCall

SpecKey == InitKey /\ [][NextKey]_vars

(***************************************************************************)
(* The byte cipher scenario: encryptBytes on X, then decryptBytes on its   *)
(* output with the same filter and key.                                    *)
(***************************************************************************)

BytesMaxLen == 33

\* X: n bytes, all f but the last, which is l.
PlainOf(n, f, l) == [i \in 1..n |-> IF i = n THEN l ELSE f]

BytesInputs == {PlainOf(n, 65, l) : n \in 0..BytesMaxLen, l \in {1, 16, 65}}

\* The values rand.Reader may deliver for the IV (two of them).
IVs == {Rep(0, AESBlockSize), [i \in 1..AESBlockSize |-> (37 * i) % 256]}

\* The keys each method's cipher accepts, as makeKey hands them over.
BytesKeys(filter) ==
    IF filter = "StdCF" THEN {KeyOfLen(10, 0), KeyOfLen(16, 1)}
    ELSE IF filter = "AESCF" THEN {KeyOfLen(16, 0), KeyOfLen(16, 1)}
    ELSE {KeyOfLen(32, 0), KeyOfLen(32, 1)}

InitBytes ==
    /\ pc = "bytes_in"
    /\ crypt = CryptV4("StdCF", "StdCF")
    /\ \E f \in {"StdCF", "AESCF", "AES3CF"} :
           \E k \in BytesKeys(f) : args = [filter |-> f, okey |-> k]
    /\ data \in BytesInputs
    /\ encoded = Ok(Nil)
    /\ decoded = Ok(Nil)
    /\ ret = Ok(Nil)
    /\ WalkIdle

EncryptBytesCall ==
    /\ pc = "bytes_in"
    /\ \E iv \in IVs :
           encoded' = encryptBytes(crypt, data, args.filter, args.okey, iv)
    /\ pc' = "bytes_enc"
    /\ UNCHANGED <<data, decoded, crypt, args, ret, heap, cnt>>

DecryptBytesCall ==
    /\ pc = "bytes_enc"
    /\ encoded.err = NoErr
    /\ decoded' = decryptBytes(crypt, encoded.out, args.filter, args.okey)
    /\ pc' = "bytes_dec"
    /\ UNCHANGED <<data, encoded, crypt, args, ret, heap, cnt>>

NextBytes == EncryptBytesCall \/ DecryptBytesCall

SpecBytes == InitBytes /\ [][NextBytes]_vars

(***************************************************************************)
(* The walker scenario: a document in memory, an authenticated handler and *)
(* calls of Decrypt and Encrypt on the objects a caller can name.          *)
(***************************************************************************)

\* A page tree: dictionary 2 and array 4 hold the same string 3, array 8
\* holds stream 5 once more and points back to object 1.
DocShared ==
    <<Indirect(1, 0, 2),
      Dict(<<"Title", "Kids", "Parent">>, <<3, 4, 1>>, NoLength),
      String(<<72, 105>>),
      Array(<<5, 3, 7>>),
      Stream(5, 0, 6, <<1, 2, 3>>),
      Dict(Nil, Nil, 3),
      Indirect(7, 0, 8),
      Array(<<5, 1>>)>>

\* Two signature dictionaries: 2 holds its Contents string directly, 7
\* holds it as indirect object 8.
DocSig ==
    <<Indirect(1, 0, 2),
      Dict(<<"Type", "Contents", "Reason">>, <<3, 4, 5>>, NoLength),
      Name("Sig"),
      String(<<9, 9, 9>>),
      String(<<82>>),
      Indirect(6, 0, 7),
      Dict(<<"Contents", "Type">>, <<8, 3>>, NoLength),
      Indirect(8, 0, 9),
      String(<<7, 7>>)>>

\* A stream whose Filter array starts with Crypt and whose DecodeParms name
\* a filter of the registry.
DocCrypt ==
    <<Stream(1, 0, 2, <<1, 2>>),
      Dict(<<"Filter", "DecodeParms", "Title">>, <<3, 5, 7>>, 2),
      Array(<<4>>),
      Name("Crypt"),
      Dict(<<"Name">>, <<6>>, NoLength),
      Name("AESCF"),
      String(<<5>>)>>

\* A direct array no object holds, with a string that indirect object 3
\* holds too.
DocDirect ==
    <<Array(<<2, 3>>),
      String(<<1, 2, 3, 4>>),
      Indirect(3, 0, 2)>>

\* A stream with a string in its dictionary.
DocTitled ==
    <<Stream(1, 1, 2, <<1, 2, 3>>),
      Dict(<<"Title">>, <<3>>, 3),
      String(<<84>>)>>

\* A tree of direct dictionaries with back-links: 4 names its parent 2
\* under Parent and strings of its own under Prev and Last.
DocBack ==
    <<Indirect(1, 1, 2),
      Dict(<<"Kids", "Title">>, <<3, 7>>, NoLength),
      Array(<<4>>),
      Dict(<<"Parent", "Prev", "Title", "Last">>, <<2, 5, 7, 6>>, NoLength),
      String(<<80>>),
      String(<<76>>),
      String(<<84, 84>>)>>

\* An array that holds itself.
DocLoop ==
    <<Indirect(1, 0, 2),
      Array(<<3, 2>>),
      String(<<88>>)>>

\* A stream whose dictionary holds the stream.
DocSelf ==
    <<Stream(1, 0, 2, <<7>>),
      Dict(<<"Next", "Title">>, <<1, 3>>, 1),
      String(<<83>>)>>

\* A stream whose Filter entry is an empty array.
DocUnfiltered ==
    <<Stream(1, 0, 2, <<1, 2>>),
      Dict(<<"Filter", "Title">>, <<3, 4>>, 2),
      Array(Nil),
      String(<<85>>)>>

Docs == [shared |-> DocShared, sig |-> DocSig, crypt |-> DocCrypt,
         direct |-> DocDirect, titled |-> DocTitled, back |-> DocBack,
         loop |-> DocLoop, self |-> DocSelf, unfiltered |-> DocUnfiltered]

\* The objects a caller can hand to Decrypt or Encrypt: the numbered ones and
\* the direct ones no other object holds.
Held(h) ==
    UNION {{h[i].ref} \cup {h[i].elems[k] : k \in 1..Len(h[i].elems)} :
           i \in DOMAIN h}

Roots(h) == {i \in DOMAIN h : h[i].kind \in {"indirect", "stream"} \/ i \notin Held(h)}

ParentNums == {0, 5}
ParentGens == {0, 2}

\* The handlers: V = 2 with a 40 bit key, and V = 4 with each pairing of
\* stream and string filter; the document key is in place, as authenticate
\* leaves it.
WalkCrypts ==
    {[NewCrypt(2, 3, 40, Nil, Nil, Nil, Nil, Nil, -4, TRUE, Nil,
               CryptFiltersV2(40), "", "")
        EXCEPT !.EncryptionKey = KeyOfLen(5, 0), !.Authenticated = TRUE]}
    \cup {[CryptV4(f[1], f[2])
             EXCEPT !.EncryptionKey = KeyOfLen(16, 0), !.Authenticated = TRUE] :
          f \in {<<"StdCF", "StdCF">>, <<"AESCF", "AESCF">>,
                 <<"Identity", "StdCF">>, <<"StdCF", "Identity">>}}
    \cup {[CryptV4("AES3CF", "AES3CF")
             EXCEPT !.V = 5, !.R = 6, !.Length = 256,
                    !.EncryptionKey = KeyOfLen(32, 0), !.Authenticated = TRUE]}

MaxCalls == 2

NoCalls(h) == [i \in DOMAIN h |-> 0]

\* No call has returned yet.
NoCall == [op |-> "none", err |-> NoErr, log |-> << >>, parent |-> <<0, 0>>]

InitWalk ==
    /\ pc = "open"
    /\ crypt \in WalkCrypts
    /\ \E d \in DOMAIN Docs :
           /\ args = [doc |-> d, calls |-> 0]
           /\ heap = Docs[d]
           /\ cnt = [dec |-> NoCalls(Docs[d]), enc |-> NoCalls(Docs[d])]
    /\ ret = NoCall
    /\ CodecIdle

DecryptCall ==
    /\ pc = "open"
    /\ args.calls < MaxCalls
    /\ \E obj \in Roots(heap), parentObjNum \in ParentNums,
          parentGenNum \in ParentGens :
           \E w \in {Decrypt(crypt, heap, cnt.dec, obj, parentObjNum, parentGenNum)} :
               /\ heap' = w.heap
               /\ crypt' = [crypt EXCEPT !.DecryptedObjects = w.memo]
               /\ cnt' = [cnt EXCEPT !.dec = w.cnt]
               /\ ret' = [op |-> "Decrypt", err |-> w.err, log |-> w.log,
                          parent |-> <<parentObjNum, parentGenNum>>]
    /\ args' = [args EXCEPT !.calls = @ + 1]
    /\ UNCHANGED <<pc, data, encoded, decoded>>

EncryptCall ==
    /\ pc = "open"
    /\ args.calls < MaxCalls
    /\ \E obj \in Roots(heap), parentObjNum \in ParentNums,
          parentGenNum \in ParentGens, iv \in IVs :
           \E w \in {Encrypt(crypt, heap, cnt.enc, iv, obj, parentObjNum, parentGenNum)} :
               /\ heap' = w.heap
               /\ crypt' = [crypt EXCEPT !.EncryptedObjects = w.memo]
               /\ cnt' = [cnt EXCEPT !.enc = w.cnt]
               /\ ret' = [op |-> "Encrypt", err |-> w.err, log |-> w.log,
                          parent |-> <<parentObjNum, parentGenNum>>]
    /\ args' = [args EXCEPT !.calls = @ + 1]
    /\ UNCHANGED <<pc, data, encoded, decoded>>

NextWalk == DecryptCall \/ EncryptCall

SpecWalk == InitWalk /\ [][NextWalk]_vars

(***************************************************************************)
(* The authentication scenario: the descriptor of a protected document, as *)
(* PdfCryptMakeNew returns it, and calls of authenticate and               *)
(* checkAccessRights with passwords of the caller's choice.                *)
(***************************************************************************)

UserPass == <<117>>           \* "u"
OwnerPass == <<111, 119>>     \* "ow"
LongPass == Rep(120, 127 + 1) \* one byte more than alg2a keeps

Passwords == {Nil, UserPass, OwnerPass, LongPass}

DocId == <<1, 2>>
FileKey == KeyOfLen(32, 3)
UserSalts == [validation |-> KeyOfLen(8, 10), key |-> KeyOfLen(8, 20)]
OwnerSalts == [validation |-> KeyOfLen(8, 30), key |-> KeyOfLen(8, 40)]

\* The descriptor of a document of revision 2, 3 or 4 protected with upass
\* and opass: O is what Alg3 computes, U what Alg4 or Alg5 computes.
CryptRC4(v, r, length, p, upass, opass) ==
    LET c0 == NewCrypt(v, r, length, Nil, Nil, Nil, Nil, Nil, p, TRUE, DocId,
                       IF v >= 4 THEN CryptFiltersV4 ELSE CryptFiltersV2(length),
                       IF v >= 4 THEN "StdCF" ELSE "",
                       IF v >= 4 THEN "StdCF" ELSE "")
        c1 == [c0 EXCEPT !.O = Alg3(c0, upass, opass).out]
    IN [c1 EXCEPT !.U = IF r = 2 THEN Alg4(c1, upass).out
                        ELSE Alg5(c1, upass, KeyOfLen(16, 50)).out]

\* The descriptor of a document of revision 5 or 6 protected with upass and
\* opass: U and O hold the password hash and the two salts, UE and OE the
\* file key under the intermediate keys, Perms the permissions under the
\* file key.
CryptAES(r, p, upass, opass) ==
    LET c0 == NewCrypt(5, r, 256, Nil, Nil, Nil, Nil, Nil, p, TRUE, DocId,
                       CryptFiltersV4, "AES3CF", "AES3CF")
        zero == Rep(0, AESBlockSize)
        U == alg2b(c0, upass \o UserSalts.validation, upass, Nil).out
             \o UserSalts.validation \o UserSalts.key
        UE == CBCEncrypt(alg2b(c0, upass \o UserSalts.key, upass, Nil).out,
                         zero, FileKey)
        O == alg2b(c0, opass \o OwnerSalts.validation \o U, opass, U).out
             \o OwnerSalts.validation \o OwnerSalts.key
        OE == CBCEncrypt(alg2b(c0, opass \o OwnerSalts.key \o U, opass, U).out,
                         zero, FileKey)
        perms == AESEncryptBlock(FileKey,
                     LowBytesLE(p, 4) \o <<255, 255, 255, 255, 84>> \o Adb
                     \o <<1, 2, 3, 4>>)
    IN [c0 EXCEPT !.U = U, !.UE = UE, !.O = O, !.OE = OE,
                  !.Perms = IF r = 6 THEN perms ELSE Nil]

\* A descriptor with the passwords it was made for; sound tells whether the
\* descriptor is as Alg3..Alg5 make it or has a Length they never wrote.
Descriptor(cr, upass, opass, sound) ==
    [cr |-> cr, upass |-> upass, opass |-> opass, sound |-> sound]

\* Documents with and without a user password, of every revision.
Descriptors ==
    {Descriptor(CryptRC4(1, 2, 40, -44, Nil, OwnerPass), Nil, OwnerPass, TRUE),
     Descriptor(CryptRC4(1, 2, 128, -44, UserPass, OwnerPass),
                UserPass, OwnerPass, TRUE)}
    \cup {Descriptor(CryptRC4(2, 3, 40, -3904, Nil, OwnerPass),
                     Nil, OwnerPass, TRUE),
          Descriptor(CryptRC4(2, 3, 128, -44, UserPass, OwnerPass),
                     UserPass, OwnerPass, TRUE),
          Descriptor(CryptRC4(4, 4, 128, -3904, UserPass, OwnerPass),
                     UserPass, OwnerPass, TRUE),
          Descriptor([CryptRC4(2, 3, 40, -44, UserPass, OwnerPass)
                        EXCEPT !.Length = 0], UserPass, OwnerPass, FALSE),
          Descriptor([CryptRC4(2, 3, 128, -44, UserPass, OwnerPass)
                        EXCEPT !.Length = 136], UserPass, OwnerPass, FALSE)}
    \cup {Descriptor(CryptAES(r, IF up = Nil THEN -44 ELSE -3904, up, OwnerPass),
                     up, OwnerPass, TRUE) :
        r \in {5, 6}, up \in {Nil, UserPass}}

InitAuth ==
    /\ pc = "open"
    /\ \E d \in Descriptors :
           /\ crypt = d.cr
           /\ args = [upass |-> d.upass, opass |-> d.opass, sound |-> d.sound,
                      first |-> d.cr, calls |-> 0, password |-> Nil]
    /\ ret = NoCall
    /\ CodecIdle /\ WalkIdle

Authenticate ==
    /\ pc = "open"
    /\ args.calls < MaxCalls
    /\ \E password \in Passwords :
           LET a == authenticate(crypt, password) IN
           /\ crypt' = a.cr
           /\ ret' = [op |-> "authenticate", ok |-> a.ok, err |-> a.err]
           /\ args' = [args EXCEPT !.calls = @ + 1, !.password = password]
    /\ UNCHANGED <<pc, data, encoded, decoded, heap, cnt>>

CheckAccessRights ==
    /\ pc = "open"
    /\ args.calls < MaxCalls
    /\ \E password \in Passwords :
           LET a == checkAccessRights(crypt, password) IN
           /\ crypt' = a.cr
           /\ ret' = [op |-> "checkAccessRights", ok |-> a.ok,
                      perms |-> a.perms, err |-> a.err]
           /\ args' = [args EXCEPT !.calls = @ + 1, !.password = password]
    /\ UNCHANGED <<pc, data, encoded, decoded, heap, cnt>>

NextAuth == Authenticate \/ CheckAccessRights

SpecAuth == InitAuth /\ [][NextAuth]_vars

(***************************************************************************)
(* The document scenario: a descriptor and an object graph, and calls of   *)
(* authenticate, checkAccessRights, Decrypt and Encrypt in any order.      *)
(***************************************************************************)

InitDoc ==
    /\ pc = "open"
    /\ \E d \in {e \in Descriptors : e.sound /\ e.cr.R \in {3, 6}} :
           /\ crypt = d.cr
           /\ args = [upass |-> d.upass, opass |-> d.opass, sound |-> d.sound,
                      first |-> d.cr, calls |-> 0, password |-> Nil,
                      doc |-> "direct"]
    /\ heap = Docs.direct
    /\ cnt = [dec |-> NoCalls(Docs.direct), enc |-> NoCalls(Docs.direct)]
    /\ ret = NoCall
    /\ CodecIdle

NextDoc == Authenticate \/ CheckAccessRights \/ DecryptCall \/ EncryptCall

SpecDoc == InitDoc /\ [][NextDoc]_vars

(***************************************************************************)
(* The permissions scenario: one call of GetAccessPermissions on a         *)
(* descriptor whose P is any of a range of 32-bit values.                  *)
(***************************************************************************)

MaxSmallP == 64

\* The small values of either sign, the values of P writers use and the
\* ends of the int32 range
PValues ==
    (-MaxSmallP .. MaxSmallP)
    \cup {-3904, -1852, -1340, -44, 4095, -4096, 2147483647, -2147483647 - 1}

InitPerms ==
    /\ CodecIdle /\ WalkIdle /\ args = Nil
    /\ pc = "perms_in"
    /\ \E p \in PValues : crypt = [CryptV4("StdCF", "StdCF") EXCEPT !.P = p]
    /\ ret = NoPermissions

GetAccessPermissionsCall ==
    /\ pc = "perms_in"
    /\ ret' = GetAccessPermissions(crypt)
    /\ pc' = "perms_ret"
    /\ UNCHANGED <<data, encoded, decoded, crypt, args, heap, cnt>>

NextPerms == GetAccessPermissionsCall

SpecPerms == InitPerms /\ [][NextPerms]_vars

(***************************************************************************)
(* The construction scenario: one call of PdfCryptMakeNew on an encryption *)
(* dictionary and a trailer. The dictionaries are those a writer makes for *)
(* each V and R, whole or with one entry taken out or replaced.            *)
(***************************************************************************)

\* The CF dictionary with the one entry StdCF.
StdCFDict(cfm, length) ==
    <<[name |-> "StdCF",
       dict |-> Some([Type |-> Some("CryptFilter"), CFM |-> Some(cfm),
                      Length |-> Some(length)])]>>

\* The encryption dictionary of a document of the given V and R.
SoundDict(v, r) ==
    [Filter |-> Some("Standard"),
     Length |-> IF r = 2 THEN None ELSE Some(128),
     V |-> Some(v), R |-> Some(r),
     O |-> Some(KeyOfLen(IF r >= 5 THEN 48 ELSE 32, 1)),
     U |-> Some(KeyOfLen(IF r >= 5 THEN 48 ELSE 32, 2)),
     OE |-> IF r >= 5 THEN Some(KeyOfLen(32, 3)) ELSE None,
     UE |-> IF r >= 5 THEN Some(KeyOfLen(32, 4)) ELSE None,
     P |-> Some(-44),
     Perms |-> IF r = 6 THEN Some(KeyOfLen(16, 5)) ELSE None,
     EncryptMetadata |-> IF r = 4 THEN Some(FALSE) ELSE None,
     CF |-> IF v >= 4 THEN Some(StdCFDict(IF v = 4 THEN CryptFilterAESV2
                                          ELSE CryptFilterAESV3,
                                          IF v = 4 THEN 16 ELSE 32))
            ELSE None,
     StrF |-> IF v >= 4 THEN Some("StdCF") ELSE None,
     StmF |-> IF v >= 4 THEN Some("StdCF") ELSE None]

SoundDicts == {SoundDict(vr[1], vr[2]) : vr \in {<<1, 2>>, <<2, 3>>, <<4, 4>>, <<5, 5>>, <<5, 6>>}}

DictKeys ==
    {"Filter", "Length", "V", "R", "O", "U", "OE", "UE", "P", "Perms",
     "EncryptMetadata", "CF", "StrF", "StmF"}

\* The dictionaries as they stand, with one entry missing, or with one
\* entry of a value the handler does not take.
EncDicts ==
    SoundDicts
    \cup {[ed EXCEPT ![k] = None] : ed \in SoundDicts, k \in DictKeys}
    \cup {[ed EXCEPT !.Filter = Some("Adobe.PubSec")] : ed \in SoundDicts}
    \cup {[ed EXCEPT !.Length = Some(44)] : ed \in SoundDicts}
    \cup {[ed EXCEPT !.V = Some(3)] : ed \in SoundDicts}
    \cup {[ed EXCEPT !.R = Some(7)] : ed \in SoundDicts}
    \cup {[ed EXCEPT !.O = Some(KeyOfLen(31, 1))] : ed \in SoundDicts}
    \cup {[ed EXCEPT !.StmF = Some("Other")] : ed \in SoundDicts}

\* Trailers: no ID, an empty ID array, an ID array of something that is
\* no string, and the ID arrays writers make.
Trailers ==
    {[ID |-> None], [ID |-> Some(<< >>)], [ID |-> Some(<<None, Some(DocId)>>)],
     [ID |-> Some(<<Some(DocId), Some(DocId)>>)], [ID |-> Some(<<Some(Nil)>>)]}

InitMakeNew ==
    /\ CodecIdle /\ WalkIdle
    /\ pc = "makenew_in"
    /\ \E ed \in EncDicts, trailer \in Trailers : args = [ed |-> ed, trailer |-> trailer]
    /\ crypt = Nil
    /\ ret = NoErr

MakeNew ==
    /\ pc = "makenew_in"
    /\ \E r \in {PdfCryptMakeNew(args.ed, args.trailer)} :
          crypt' = r.out /\ ret' = r.err
    /\ pc' = "makenew_ret"
    /\ UNCHANGED <<data, encoded, decoded, args, heap, cnt>>

NextMakeNew == MakeNew

SpecMakeNew == InitMakeNew /\ [][NextMakeNew]_vars

(***************************************************************************)
(* The registry scenario: one call of LoadCryptFilters on an encryption    *)
(* dictionary whose CF dictionary has up to two entries of different       *)
(* names.                                                                  *)
(***************************************************************************)

MaxEights == 17

\* The multiples of 8 from -8 on, and some lengths that are none.
LengthValues == {8 * k : k \in (-1)..MaxEights} \cup {5, 7, 12}

CFEntry(name, type, cfm, length) ==
    [name |-> name,
     dict |-> Some([Type |-> type, CFM |-> cfm, Length |-> length])]

\* The entries StdCF of each method and length.
LengthEntries ==
    {CFEntry("StdCF", Some("CryptFilter"), Some(cfm), Some(l)) :
         cfm \in {CryptFilterV2, CryptFilterAESV2, CryptFilterAESV3},
         l \in LengthValues}

\* Entries without Length or Type, of a wrong Type, of no or an unknown
\* method, entries that are no dictionaries, and entries named Identity.
OtherEntries ==
    {CFEntry("AESCF", None, Some(CryptFilterAESV2), None),
     CFEntry("AESCF", Some("CryptFilter"), Some(CryptFilterAESV2), Some(128)),
     CFEntry("AESCF", Some("Filter"), Some(CryptFilterAESV2), Some(16)),
     CFEntry("AESCF", None, None, Some(16)),
     CFEntry("AESCF", None, Some("AESV4"), Some(16)),
     [name |-> "AESCF", dict |-> None],
     CFEntry("Identity", Some("CryptFilter"), Some(CryptFilterV2), Some(16)),
     CFEntry("Identity", Some("Filter"), Some("AESV4"), Some(7)),
     [name |-> "Identity", dict |-> None]}

CFDicts ==
    {<< >>}
    \cup {<<e>> : e \in LengthEntries \cup OtherEntries}
    \cup {<<e, f>> : e \in LengthEntries \cup OtherEntries, f \in OtherEntries}
    \cup {<<f, e>> : e \in LengthEntries, f \in OtherEntries}

FilterNames ==
    {<<None, None>>, <<Some("StdCF"), Some("StdCF")>>,
     <<Some("Identity"), Some("AESCF")>>, <<Some("StdCF"), None>>,
     <<Some("Other"), None>>, <<None, Some("Other")>>}

InitFilters ==
    /\ pc = "filters_in"
    /\ \E cf \in CFDicts, n \in FilterNames :
           /\ Len(cf) = 2 => cf[1].name # cf[2].name
           /\ args = [CF |-> Some(cf), StrF |-> n[1], StmF |-> n[2]]
    /\ crypt = BlankCrypt
    /\ ret = NoErr
    /\ WalkIdle /\ CodecIdle

LoadFilters ==
    /\ pc = "filters_in"
    /\ \E r \in {LoadCryptFilters(crypt, args)} :
           crypt' = r.out /\ ret' = r.err
    /\ pc' = "filters_ret"
    /\ UNCHANGED <<data, encoded, decoded, args, heap, cnt>>

NextFilters == LoadFilters

SpecFilters == InitFilters /\ [][NextFilters]_vars

(***************************************************************************)
(* The round loop scenario: the loop of alg2b (R = 6) taken one round at a *)
(* time, the ciphertext of every round being any the cipher can deliver.   *)
(* args holds len(pwd) + len(userKey) and the ciphertext of the last       *)
(* round, ret the state of the loop.                                       *)
(***************************************************************************)

\* len(pwd) + len(userKey) as alg11 (no user key) and alg12 (48 bytes of
\* user key) pass them, for passwords of 0, 1, 127 and 128 bytes
RoundLens == {0, 1, 127, 128, 48, 49, 127 + 48, 128 + 48}

\* Ciphertexts by what the loop reads of them: the hash they select and
\* their last byte.
LastBytes == {0, 31, 32, 33, 200, 255}
CipherOutputs == {3 * b + sel : b \in LastBytes, sel \in 0..2}

\* uint8(E[len(E)-1]) of the ciphertext e
LastByte(e) == (e \div 3) % 256

InitRounds ==
    /\ CodecIdle /\ WalkIdle /\ crypt = Nil
    /\ pc = "alg2b_loop"
    /\ \E lens \in RoundLens : args = [lens |-> lens, e |-> 0]
    /\ ret = [h |-> 0, klen |-> 32, i |-> 0, done |-> FALSE, err |-> NoErr]

Round ==
    /\ pc = "alg2b_loop"
    /\ \E e \in CipherOutputs :
          /\ ret' = alg2bStep(args.lens, ret, e)
          /\ args' = [args EXCEPT !.e = e]
    /\ pc' = IF ret'.err # NoErr THEN "alg2b_panic"
             ELSE IF ret'.done THEN "alg2b_return"
             ELSE "alg2b_loop"
    /\ UNCHANGED <<data, encoded, decoded, crypt, heap, cnt>>

NextRounds == Round

SpecRounds == InitRounds /\ [][NextRounds]_vars

\* The loop is not suspended for ever between two rounds.
FairRounds == SpecRounds /\ WF_vars(NextRounds)

(***************************************************************************)
(* Claims                                                                  *)
(***************************************************************************)

\* C9: RunLengthEncoder round-trips: for every byte sequence X, the empty
\* sequence and runs or literal stretches longer than 127 bytes included,
\* DecodeBytes(EncodeBytes(X)) returns X and no error.
C9_RunLengthRoundTrip ==
    pc = "rl_dec" => (decoded.err = NoErr /\ decoded.out = data)

\* C10: ASCII85Encoder round-trips: for every byte sequence X, those whose
\* final partial group holds only zero bytes included,
\* DecodeBytes(EncodeBytes(X)) returns X.
C10_ASCII85RoundTrip ==
    pc = "a85_dec" => (decoded.err = NoErr /\ decoded.out = data)

\* C6: makeKey returns, for a V2 filter, the first min(n+5, 16) bytes of
\* MD5(documentKey || objNum low 3 bytes LE || genNum low 2 bytes LE); for an
\* AESV2 filter the full 16 bytes of the MD5 of the same input followed by
\* "sAlT", for every document key length; for AESV3 the document key itself.
C6_MakeKeyInput(a) ==
    a.ekey \o LowBytesLE(a.objNum, 3) \o LowBytesLE(a.genNum, 2)

C6_MakeKey ==
    pc = "key_done" =>
        /\ args.filter = "StdCF" =>
               ret = Ok(SubSeq(MD5(C6_MakeKeyInput(args)), 1,
                               Min(Len(args.ekey) + 5, 16)))
        /\ args.filter = "AESCF" => ret = Ok(MD5(C6_MakeKeyInput(args) \o Salt))
        /\ args.filter = "AES3CF" => ret = Ok(args.ekey)

\* The same with the AESV2 case held to document keys of 11 bytes or more.
MakeKeyLongKeys ==
    (pc = "key_done" /\ (args.filter = "AESCF" => Len(args.ekey) >= 11))
        => C6_MakeKey

\* C2: for V2, AESV2 and AESV3, every key and every X, the empty string
\* included, decryptBytes(encryptBytes(X)) with the same filter and key
\* returns exactly X and no error.
C2_BytesRoundTrip ==
    /\ pc = "bytes_enc" => encoded.err = NoErr
    /\ pc = "bytes_dec" => (decoded.err = NoErr /\ decoded.out = data)

\* The round trip on the inputs the two failing cases leave out: any X under
\* V2, a non-empty X under AESV2, a whole number of blocks under AESV3.
BytesOtherRoundTrip ==
    LET covered == \/ args.filter = "StdCF"
                   \/ args.filter = "AESCF" /\ data # Nil
                   \/ args.filter = "AES3CF" /\ Len(data) % AESBlockSize = 0
    IN (pc \in {"bytes_enc", "bytes_dec"} /\ covered) => C2_BytesRoundTrip

\* The round trips hold on the inputs the failing cases leave out.
RLNonEmptyRoundTrip ==
    (pc = "rl_dec" /\ data # Nil) => (decoded.err = NoErr /\ decoded.out = data)

A85ZeroTail(d) ==
    /\ Len(d) % 4 # 0
    /\ \A i \in (Len(d) - (Len(d) % 4) + 1)..Len(d) : d[i] = 0

A85OtherRoundTrip ==
    (pc = "a85_dec" /\ ~A85ZeroTail(data)) => (decoded.err = NoErr /\ decoded.out = data)

\* C1: within one pass each string or stream payload goes through
\* decryptBytes at most once, also when the payload is reachable through
\* several references or is handed to Decrypt more than once; the same holds
\* for Encrypt and encryptBytes.
C1_AtMostOnce ==
    pc = "open" =>
        \A i \in DOMAIN heap : cnt.dec[i] <= 1 /\ cnt.enc[i] <= 1

\* For the stream payloads alone, which the memo maps cover, it holds.
StreamsAtMostOnce ==
    pc = "open" =>
        \A i \in DOMAIN heap :
            heap[i].kind = "stream" => (cnt.dec[i] <= 1 /\ cnt.enc[i] <= 1)

\* The strings held under Contents of a dictionary whose Type is Sig,
\* directly or as an indirect object.
SigContents(h) ==
    LET under(d) == DictGet(h, d, "Contents")
        str(v) == IF v # 0 /\ h[v].kind = "indirect" THEN h[v].ref ELSE v
    IN {str(under(d)) : d \in {i \in DOMAIN h :
                                  /\ h[i].kind = "dict"
                                  /\ IsName(h, DictGet(h, i, "Type"), "Sig")
                                  /\ under(i) # 0}}

\* C7: no Decrypt or Encrypt pass changes the bytes stored under Contents of
\* a dictionary whose Type is Sig, whatever the object graph.
C7_SigContentsUntouched ==
    pc = "open" =>
        \A i \in SigContents(heap) : heap[i].bytes = Docs[args.doc][i].bytes

\* For a Contents string the signature dictionary holds directly it holds.
DirectSigContentsUntouched ==
    pc = "open" =>
        \A d \in DOMAIN heap :
            LET c == DictGet(heap, d, "Contents") IN
            (/\ heap[d].kind = "dict"
             /\ IsName(heap, DictGet(heap, d, "Type"), "Sig")
             /\ c # 0 /\ heap[c].kind = "string")
                => heap[c].bytes = Docs[args.doc][c].bytes

\* The password of the last call is neither the user password nor the owner
\* password of the document.
WrongPassword == args.password # args.upass /\ args.password # args.opass

\* C3: authenticate(password) returns (false, nil) and leaves Authenticated
\* false whenever password is neither the user nor the owner password, for
\* every R in 2..6; an error is returned only for structural failures, never
\* because the password is wrong.
C3_WrongPasswordRejected ==
    (pc = "open" /\ ret.op = "authenticate" /\ args.sound /\ WrongPassword)
        => (ret.ok = FALSE /\ ret.err = NoErr /\ crypt.Authenticated = FALSE)

\* It holds for R <= 4, and for R >= 5 when the document has a user password.
WrongPasswordRejectedOtherwise ==
    (crypt.R <= 4 \/ args.upass # Nil) => C3_WrongPasswordRejected

\* C4: checkAccessRights(password) returns (true, all eight flags, nil) for
\* the owner password, (true, exactly the flags decoded from P, nil) for the
\* user password and (false, all flags false, nil) for any other password.
C4_AccessRights ==
    (pc = "open" /\ ret.op = "checkAccessRights" /\ args.sound) =>
        /\ ret.err = NoErr
        /\ args.password = args.opass =>
               (ret.ok /\ ret.perms = AccessPermissions(TRUE, TRUE, TRUE, TRUE,
                                                        TRUE, TRUE, TRUE, TRUE))
        /\ args.password = args.upass =>
               (ret.ok /\ ret.perms = GetAccessPermissions(args.first))
        /\ WrongPassword => (~ret.ok /\ ret.perms = NoPermissions)

\* It holds for every password that fits the round buffer of alg2b.
AccessRightsOtherwise ==
    (crypt.R <= 5 \/ Len(args.password) <= 127) => C4_AccessRights

\* The descriptor fields of a PdfCrypt value.
DescriptorOf(cr) ==
    [R |-> cr.R, V |-> cr.V, Length |-> cr.Length, O |-> cr.O, U |-> cr.U,
     OE |-> cr.OE, UE |-> cr.UE, Perms |-> cr.Perms, P |-> cr.P,
     EncryptMetadata |-> cr.EncryptMetadata, Id0 |-> cr.Id0,
     CryptFilters |-> cr.CryptFilters, StringFilter |-> cr.StringFilter,
     StreamFilter |-> cr.StreamFilter]

\* C5: after PdfCryptMakeNew has returned, no sequence of authenticate,
\* checkAccessRights, Decrypt and Encrypt calls changes R, V, Length, O, U,
\* OE, UE, Perms, P, EncryptMetadata, Id0, CryptFilters, StringFilter or
\* StreamFilter.
C5_DescriptorUnchanged ==
    pc = "open" => DescriptorOf(crypt) = DescriptorOf(args.first)

\* Every descriptor field but Perms keeps its value.
DescriptorUnchangedButPerms ==
    pc = "open" =>
        [DescriptorOf(crypt) EXCEPT !.Perms = Nil]
            = [DescriptorOf(args.first) EXCEPT !.Perms = Nil]

\* C8: whenever authenticate returns true, EncryptionKey has exactly 5 bytes
\* if R = 2, exactly Length/8 bytes if R is 3 or 4, and exactly 32 bytes if R
\* is 5 or 6, for every descriptor PdfCryptMakeNew accepts.
C8_KeyLength ==
    (pc = "open" /\ ret.op = "authenticate" /\ ret.ok) =>
        Len(crypt.EncryptionKey) =
            IF crypt.R = 2 THEN 5
            ELSE IF crypt.R <= 4 THEN crypt.Length \div 8
            ELSE 32

\* authenticate has returned true on a revision 3 document of Length 128
\* and left a key of 16 bytes.
C8_Witness ==
    /\ pc = "open" /\ ret.op = "authenticate" /\ ret.ok
    /\ crypt.R = 3 /\ crypt.Length = 128 /\ Len(crypt.EncryptionKey) = 16

\* C11: a FlateEncoder with Predictor 11 and any Columns >= 1 and Colors >= 1
\* round-trips: decoding the output of EncodeBytes(X) with the same encoder,
\* its predictor post-processing included, returns X for every X whose
\* length is a multiple of Columns x Colors, the empty X included.
C11_FlatePredictorRoundTrip ==
    (/\ pc = "flate_dec"
     /\ args.Predictor = 11
     /\ Len(data) % (args.Columns * args.Colors) = 0)
    => (decoded.err = NoErr /\ decoded.out = data)

\* What does hold: with Predictor 11 and Colors = 1 every non-empty X whose
\* length is a multiple of Columns round-trips, and with Predictor 1 every X.
FlateOtherRoundTrip ==
    (/\ pc = "flate_dec"
     /\ \/ args.Predictor = 1
        \/ args.Predictor = 11 /\ args.Colors = 1 /\ data # Nil)
    => (decoded.err = NoErr /\ decoded.out = data)

\* The exit test of the loop on the round count i and the last byte of E.
RoundBreaks == ret.i >= 64 /\ LastByte(args.e) <= (ret.i - 32) % 256

\* C12: the round loop of alg2b (R = 6) terminates for every input and every
\* sequence of cipher outputs: it runs at least 64 rounds, stops at the
\* first round count i >= 64 for which the last byte of E is <= i - 32, and
\* never runs more than 287 rounds.
C12_RoundLoop ==
    /\ ret.i <= 287
    /\ pc = "alg2b_loop" => (ret.i = 0 \/ ~RoundBreaks)
    /\ pc # "alg2b_loop" => (pc = "alg2b_return" /\ ret.i >= 64 /\ RoundBreaks)

\* What does hold: the same, whenever len(pwd) + len(userKey) leaves room
\* for the longest K in the round buffer; and the loop always ends.
RoundLoopInBuffer ==
    args.lens + 64 <= 127 + 64 + 48
    => /\ ret.i <= 287
       /\ pc = "alg2b_loop" => (ret.i = 0 \/ ~RoundBreaks)
       /\ pc # "alg2b_loop" => (pc = "alg2b_return" /\ ret.i >= 64 /\ RoundBreaks)

RoundLoopEnds == <>(pc # "alg2b_loop")

\* C13 as stated: GetAccessPermissions on a descriptor with P = -4 returns
\* Printing = false and Modify = false, with ExtractGraphics, Annotate,
\* FillForms, DisabilityExtract, RotateInsert and FullPrintQuality all true.
C13_PermissionsOfMinus4 ==
    (pc = "perms_ret" /\ crypt.P = -4)
    => ret = AccessPermissions(FALSE, FALSE, TRUE, TRUE, TRUE, TRUE, TRUE, TRUE)

\* C13, amended: bits 3 and 4 (counted from 1) are set in -4, so
\* GetAccessPermissions on P = -4 returns all eight flags true; the P with
\* bits 3 and 4 clear and every other bit set is -13, and on it
\* GetAccessPermissions returns Printing = false and Modify = false with
\* the six other flags true.
C13_PermissionsByBit ==
    /\ (pc = "perms_ret" /\ crypt.P = -4)
       => ret = AccessPermissions(TRUE, TRUE, TRUE, TRUE, TRUE, TRUE, TRUE, TRUE)
    /\ (pc = "perms_ret" /\ crypt.P = -13)
       => ret = AccessPermissions(FALSE, FALSE, TRUE, TRUE, TRUE, TRUE, TRUE, TRUE)

C13_Witness == pc = "perms_ret" /\ crypt.P = -4 /\ ret.Printing

\* A required entry of the encryption dictionary is absent, or Filter is
\* not Standard.
RequiredEntryMissing(ed) ==
    \/ ~Has(ed.Filter) \/ (Has(ed.Filter) /\ Val(ed.Filter) # "Standard")
    \/ ~Has(ed.R) \/ ~Has(ed.O) \/ ~Has(ed.U) \/ ~Has(ed.P)

\* ID[0] is missing from the trailer.
Id0Missing(trailer) == ~Has(trailer.ID) \/ Len(Val(trailer.ID)) = 0

\* C14: PdfCryptMakeNew returns an error whenever a required input is
\* absent: Filter (which must be Standard), R, O, U or P missing from the
\* encryption dictionary, or ID[0] missing from the trailer.
C14_RequiredInputs ==
    (/\ pc = "makenew_ret"
     /\ RequiredEntryMissing(args.ed) \/ Id0Missing(args.trailer))
    => ret # NoErr

\* What does hold: an error whenever a required entry of the encryption
\* dictionary is absent; and a trailer without ID[0] gives the empty Id0.
RequiredEntries ==
    /\ (pc = "makenew_ret" /\ RequiredEntryMissing(args.ed)) => ret # NoErr
    /\ (pc = "makenew_ret" /\ ret = NoErr /\ Id0Missing(args.trailer))
       => crypt.Id0 = Nil

\* The calls of decryptBytes or encryptBytes of the last Decrypt or Encrypt
\* call that returned an error.
Failures(log) ==
    {k \in 1..Len(log) : log[k].op = "bytes" /\ log[k].err \notin {NoErr, Panic}}

\* The entries of the log that transformed an object for the last time.
LastOfObject(log) ==
    {k \in 1..Len(log) :
        /\ log[k].op = "bytes" /\ log[k].err = NoErr
        /\ \A j \in (k + 1)..Len(log) : ~(log[j].op = "bytes" /\ log[j].id = log[k].id)}

\* C15: when the decryption of some string or stream fails during a Decrypt
\* call, Decrypt returns that first error to its caller at once, visits no
\* further object, and leaves every object that was decrypted before the
\* failure in its decrypted form; the same holds for Encrypt.
C15_FirstErrorReturned ==
    (pc = "open" /\ ret.op \in {"Decrypt", "Encrypt"} /\ Failures(ret.log) # {})
    => /\ Failures(ret.log) = {Len(ret.log)}
       /\ ret.err = ret.log[Len(ret.log)].err
       /\ \A k \in LastOfObject(ret.log) : heap[ret.log[k].id].bytes = ret.log[k].out

C15_Witness ==
    /\ pc = "open" /\ ret.op = "Decrypt" /\ Failures(ret.log) # {}
    /\ LastOfObject(ret.log) # {}

(***************************************************************************)
(* MultiEncoder: the order of the stages                                   *)
(***************************************************************************)

\* The calls of a log are the stages order[1], order[2], ... in turn,
\* each handed what the one before returned and the first handed input; no
\* call but the last returned an error; a call follows every call without
\* an error until order is used up; the result r is the last call's error
\* with no data, or the last call's output.
Chained(order, input, r, Apply) ==
    /\ Len(r.log) <= Len(order)
    /\ \A k \in 1..Len(r.log) :
          /\ r.log[k].stage = order[k]
          /\ r.log[k].in = IF k = 1 THEN input ELSE r.log[k - 1].out
          /\ Apply[k] = [out |-> r.log[k].out, err |-> r.log[k].err]
          /\ k < Len(r.log) => r.log[k].err = NoErr
    /\ IF r.log # << >> /\ r.log[Len(r.log)].err # NoErr
       THEN r.out = Nil /\ r.err = r.log[Len(r.log)].err
       ELSE /\ Len(r.log) = Len(order)
            /\ r.err = NoErr
            /\ r.out = IF r.log = << >> THEN input ELSE r.log[Len(r.log)].out

DecodeChained(input, r) ==
    Chained([k \in 1..Len(args) |-> k], input, r,
            [k \in 1..Len(r.log) |->
                StageDecodeBytes(args[r.log[k].stage], r.log[k].in)])

EncodeChained(input, r) ==
    Chained([k \in 1..Len(args) |-> Len(args) + 1 - k], input, r,
            [k \in 1..Len(r.log) |->
                StageEncodeBytes(args[r.log[k].stage], r.log[k].in)])

\* Every stage EncodeBytes called gives its input back from what it wrote.
StagesRoundTrip ==
    \A k \in 1..Len(encoded.log) :
        StageDecodeBytes(args[encoded.log[k].stage], encoded.log[k].out)
            = Ok(encoded.log[k].in)

\* C16: DecodeBytes applies e1 first and en last, EncodeBytes applies en
\* first and e1 last, either stops at the first stage that returns an error
\* and returns that error with no data; DecodeBytes(EncodeBytes(X)) = X
\* whenever every stage round-trips.
C16_MultiOrder ==
    /\ pc \in {"multi_enc", "multi_dec"} => EncodeChained(data, encoded)
    /\ pc = "multi_dec" => DecodeChained(encoded.out, decoded)
    /\ pc = "multi_raw" => DecodeChained(data, decoded)
    /\ (pc = "multi_dec" /\ StagesRoundTrip)
           => decoded.err = NoErr /\ decoded.out = data

C16_Witness ==
    /\ pc = "multi_dec"
    /\ Len(args) = 2 /\ args[1] # args[2]
    /\ StagesRoundTrip
    /\ data # Nil /\ decoded.out = data

(***************************************************************************)
(* Decrypt: the dictionary of a stream                                     *)
(***************************************************************************)

\* The strings the dictionary of stream id holds as values Decrypt recurses
\* into.
DictStrings(h, id) ==
    {s \in DOMAIN h :
        /\ h[s].kind = "string"
        /\ \E i \in DOMAIN DictVisited(h, h[id].ref) :
               DictVisited(h, h[id].ref)[i] = s}

\* The filter of the strings of the handler: Default before V = 4, StrF
\* from then on.
StrFName == IF crypt.V >= 4 THEN crypt.StringFilter ELSE "Default"

\* In the last call the strings of the dictionary of stream id went through
\* decryptBytes under the string filter and the numbers of the stream, and
\* Length is the length of the payload.
DictionaryDone(id) ==
    /\ (StrFName # "Identity" =>
           \A s \in DictStrings(heap, id) :
               \E j \in DOMAIN ret.log :
                   /\ ret.log[j].op = "bytes" /\ ret.log[j].id = s
                   /\ ret.log[j].filter = StrFName
                   /\ ret.log[j].num = heap[id].num
                   /\ ret.log[j].gen = heap[id].gen)
    /\ heap[heap[id].ref].len = Len(heap[id].bytes)

\* C17: for every stream a Decrypt call visits, the strings of the stream's
\* dictionary are decrypted with the string filter under the stream's
\* numbers, whatever filter the payload resolves to, and Length is the
\* length of the payload afterwards.
C17_StreamDictionaryWalked ==
    (pc = "open" /\ ret.op = "Decrypt" /\ ret.err = NoErr)
    => \A k \in DOMAIN ret.log :
           (ret.log[k].op = "visit" /\ heap[ret.log[k].id].kind = "stream")
           => DictionaryDone(ret.log[k].id)

\* The same for the streams whose payload the call handed to decryptBytes,
\* which leaves out the payloads that resolve to Identity.
PayloadDictionaryWalked ==
    (pc = "open" /\ ret.op = "Decrypt" /\ ret.err = NoErr)
    => \A k \in DOMAIN ret.log :
           (ret.log[k].op = "bytes" /\ heap[ret.log[k].id].kind = "stream")
           => DictionaryDone(ret.log[k].id)

(***************************************************************************)
(* Decrypt and Encrypt: the filter of the strings                          *)
(***************************************************************************)

\* What decryptBytes or encryptBytes returns for the bytes, the numbers and
\* the filter f of entry e of the log of the last call.
Transformed(e, f) ==
    {CryptBytes(ret.op, crypt, e.in, f,
                makeKey(crypt, f, e.num, e.gen, crypt.EncryptionKey).out, iv) :
         iv \in IVs}

\* The call on the string of entry k of the log went the way of filter f:
\* for Identity nothing was done to the bytes, for another filter they went
\* through the registry entry f under a key made for f.
StringProcessed(k, f) ==
    IF f = "Identity"
    THEN \/ k = Len(ret.log)
         \/ ret.log[k + 1].op # "bytes"
         \/ ret.log[k + 1].id # ret.log[k].id
    ELSE /\ k < Len(ret.log)
         /\ ret.log[k + 1].op = "bytes"
         /\ ret.log[k + 1].id = ret.log[k].id
         /\ ret.log[k + 1].filter = f
         /\ [out |-> ret.log[k + 1].out, err |-> ret.log[k + 1].err]
                \in Transformed(ret.log[k + 1], f)

StringRule(f) ==
    (pc = "open" /\ ret.op \in {"Decrypt", "Encrypt"})
    => \A k \in DOMAIN ret.log :
           (ret.log[k].op = "visit" /\ heap[ret.log[k].id].kind = "string")
           => StringProcessed(k, f)

Enclosing(log, k, e) ==
    log[CHOOSE j \in 1..k :
            /\ log[j].op = "visit" /\ log[j].depth = e
            /\ \A i \in (j + 1)..k : ~(log[i].op = "visit" /\ log[i].depth = e)].id

\* The depths of the indirect objects and streams around the string of
\* bytes entry k, which is made one below the call on the string.
Numbered(log, k) ==
    {e \in 0..(log[k].depth - 2) :
        heap[Enclosing(log, k, e)].kind \in {"indirect", "stream"}}

Max(S) == CHOOSE x \in S : \A y \in S : y <= x

\* The numbers the key of bytes entry k is to be made from.
KeyContext(k) ==
    IF heap[ret.log[k].id].kind = "stream"
    THEN <<heap[ret.log[k].id].num, heap[ret.log[k].id].gen>>
    ELSE IF Numbered(ret.log, k) = {} THEN ret.parent
    ELSE <<heap[Enclosing(ret.log, k, Max(Numbered(ret.log, k)))].num,
           heap[Enclosing(ret.log, k, Max(Numbered(ret.log, k)))].gen>>

\* C19: every string Decrypt or Encrypt transforms is keyed by the numbers
\* of the nearest enclosing indirect object or stream on the traversal
\* path, or by the caller's numbers when there is none; every stream
\* payload is keyed by the stream's own numbers.
C19_KeyContext ==
    (pc = "open" /\ ret.op \in {"Decrypt", "Encrypt"})
    => \A k \in DOMAIN ret.log :
           ret.log[k].op = "bytes"
           => <<ret.log[k].num, ret.log[k].gen>> = KeyContext(k)

\* A string keyed by an indirect object two levels up whose numbers are not
\* the caller's, and in the same call a stream payload.
C19_Witness ==
    /\ pc = "open" /\ ret.op \in {"Decrypt", "Encrypt"}
    /\ \E k \in DOMAIN ret.log :
           /\ ret.log[k].op = "bytes"
           /\ heap[ret.log[k].id].kind = "string"
           /\ Numbered(ret.log, k) # {}
           /\ Max(Numbered(ret.log, k)) < ret.log[k].depth - 2
           /\ KeyContext(k) # ret.parent
    /\ \E k \in DOMAIN ret.log :
           /\ ret.log[k].op = "bytes"
           /\ heap[ret.log[k].id].kind = "stream"

(***************************************************************************)
(* Decrypt and Encrypt: cycles and back-links                              *)
(***************************************************************************)

BackLinks == {"Parent", "Prev", "Last"}

\* The objects array or dictionary i holds other than under a back-link.
Forward(h, i) ==
    IF h[i].kind = "array" THEN {h[i].elems[k] : k \in DOMAIN h[i].elems}
    ELSE IF h[i].kind = "dict"
    THEN {h[i].elems[k] : k \in {j \in DOMAIN h[i].keys : h[i].keys[j] \notin BackLinks}}
    ELSE {}

\* The arrays and dictionaries reached from the set S in up to n steps that
\* pass no indirect object, no stream and no back-link.
RECURSIVE Reached(_, _, _)
Reached(h, S, n) ==
    IF n = 0 THEN S
    ELSE Reached(h, S \cup UNION {Forward(h, i) : i \in S}, n - 1)

\* Every cycle of h passes through an indirect object, a stream or a
\* back-link: no array or dictionary comes back to itself without.
CyclesBroken(h) ==
    \A i \in DOMAIN h : i \notin Reached(h, Forward(h, i), Len(h))

\* The objects visited by the calls that the call of entry k of the log
\* makes itself.
Children(log, k) ==
    {log[j].id : j \in {j \in (k + 1)..Len(log) :
        /\ log[j].op = "visit" /\ log[j].depth = log[k].depth + 1
        /\ \A i \in (k + 1)..j :
               ~(log[i].op = "visit" /\ log[i].depth <= log[k].depth)}}

\* C20: Decrypt and Encrypt terminate on every object graph in which each
\* cycle passes through an indirect object, a stream or a dictionary entry
\* named Parent, Prev or Last; and a dictionary's values under Parent, Prev
\* and Last are never visited through that dictionary.
C20_Terminates ==
    (pc = "open" /\ ret.op \in {"Decrypt", "Encrypt"})
    => /\ CyclesBroken(heap) => ret.err # StackOverflow
       /\ \A k \in DOMAIN ret.log :
              (ret.log[k].op = "visit" /\ heap[ret.log[k].id].kind = "dict")
              => Children(ret.log, k) \subseteq Forward(heap, ret.log[k].id)

\* A call that returned from a dictionary whose Parent is a dictionary
\* above it on the call chain.
C20_Witness ==
    /\ pc = "open" /\ ret.op \in {"Decrypt", "Encrypt"} /\ ret.err = NoErr
    /\ CyclesBroken(heap)
    /\ \E k \in DOMAIN ret.log, i \in DOMAIN heap :
           /\ ret.log[k].op = "visit" /\ ret.log[k].id = i
           /\ heap[i].kind = "dict"
           /\ \E n \in DOMAIN heap[i].keys :
                  /\ heap[i].keys[n] = "Parent"
                  /\ heap[heap[i].elems[n]].kind = "dict"
                  /\ \E e \in 0..(ret.log[k].depth - 1) :
                         Enclosing(ret.log, k, e) = heap[i].elems[n]
           /\ Children(ret.log, k) # {}

(***************************************************************************)
(* FlateEncoder.DecodeStream: the PNG predictors                           *)
(***************************************************************************)

\* The Paeth choice among a = left, b = above and c = upper left on
\* integers: the one nearest to a + b - c, ties a, then b.
PaethOnIntegers(a, b, c) ==
    IF absInt(b - c) <= absInt(a - c) /\ absInt(b - c) <= absInt(a + b - 2 * c) THEN a
    ELSE IF absInt(a - c) <= absInt(a + b - 2 * c) THEN b
    ELSE c

\* The prediction for a data byte from its neighbours, on integers.
Predicted(fb, left, above, upleft) ==
    CASE fb = 0 -> 0
      [] fb = 1 -> left
      [] fb = 2 -> above
      [] fb = 3 -> (left + above) \div 2
      [] fb = 4 -> PaethOnIntegers(left, above, upleft)

\* The data bytes of a row as reconstructed from the stored row (indicator
\* first) and the data bytes of the row above: byte j is stored + pred mod
\* 256, left and upper left being 0 at the first data byte.
Reconstructed(row, above) ==
    LET n == Len(row) - 1
        F[j \in 0..n] ==
            IF j = 0 THEN Nil
            ELSE Append(F[j - 1],
                        (row[j + 1]
                         + Predicted(row[1],
                                     IF j = 1 THEN 0 ELSE F[j - 1][j - 1],
                                     above[j],
                                     IF j = 1 THEN 0 ELSE above[j - 1])) % 256)
    IN F[n]

\* The rows of outData reconstructed one after the other, the row above
\* the first being zeros.
RECURSIVE ReconstructedRows(_, _, _)
ReconstructedRows(outData, rowLength, above) ==
    IF outData = Nil THEN Nil
    ELSE Reconstructed(SubSeq(outData, 1, rowLength), above)
         \o ReconstructedRows(SubSeq(outData, rowLength + 1, Len(outData)), rowLength,
                              Reconstructed(SubSeq(outData, 1, rowLength), above))

\* C21: PNG predictor decoding reconstructs every data byte as (stored +
\* pred) mod 256 with pred computed on integers without wrap-around: 0,
\* left, above, floor((left + above) / 2) or the Paeth choice, left and
\* upper left 0 at the first data byte of a row and above 0 in the first
\* row; the row 01 10 00 00 00 with four columns decodes to 10 10 10 10.
C21_PNGPredictors ==
    pc = "png_dec"
    => decoded = Ok(ReconstructedRows(data, args.Columns * args.Colors + 1,
                                      Rep(0, args.Columns * args.Colors)))

\* The same for the rows of indicators 0, 1 and 2, and for a single row of
\* indicator 4, whose first byte has nothing above it.
PNGNoneSubUp ==
    (/\ pc = "png_dec"
     /\ \A i \in 0..((Len(data) \div (args.Columns + 1)) - 1) :
            \/ data[i * (args.Columns + 1) + 1] \in {0, 1, 2}
            \/ data[i * (args.Columns + 1) + 1] = 4 /\ i = 0)
    => decoded = Ok(ReconstructedRows(data, args.Columns * args.Colors + 1,
                                      Rep(0, args.Columns * args.Colors)))

(***************************************************************************)
(* Predictor decoding: the length of the rows                              *)
(***************************************************************************)

\* The row length of the predictor of the encoder: a row of samples for
\* TIFF, and one byte more for PNG.
RowLengthOf(enc) ==
    IF enc.Predictor = 2 THEN enc.Columns * enc.Colors
    ELSE enc.Columns * enc.Colors + 1

\* C22: predictor decoding fails with an invalid-row-length error exactly
\* when the decompressed length is not a multiple of the row length, and
\* returns empty output with no error when the decompressed data is empty
\* and the row length is positive.
C22_RowLength ==
    (pc = "rows_dec" /\ RowLengthOf(args.enc) > 0)
    => /\ decoded.err = "Invalid row length"
              <=> Len(data) % RowLengthOf(args.enc) # 0
       /\ data = Nil => decoded = Ok(Nil)

\* The first half, and what the empty payload gets.
RowLengthChecked ==
    (pc = "rows_dec" /\ RowLengthOf(args.enc) > 0)
    => /\ decoded.err = "Invalid row length"
              <=> Len(data) % RowLengthOf(args.enc) # 0
       /\ data = Nil => decoded = Fail(Nil, "Range check error")

(***************************************************************************)
(* LoadCryptFilters                                                        *)
(***************************************************************************)

\* The rule for the Length l of an entry of method cfm, and what is stored.
Acceptable(l, cfm) ==
    /\ l % 8 = 0
    /\ \/ l >= 5 /\ l <= 16
       \/ l \in {64, 128}
       \/ l = 32 /\ cfm = CryptFilterAESV3

StoredLength(l) == IF l \in {64, 128} THEN l \div 8 ELSE l

LengthErrors ==
    {"Crypt filter length not multiple of 8",
     "Crypt filter length not in range 40 - 128 bit"}

\* Entry e of a CF dictionary gets as far as its Length: it is a dictionary
\* not named Identity, of Type CryptFilter if of any, and of a known
\* method.
LengthRead(e) ==
    /\ Has(e.dict) /\ e.name # "Identity"
    /\ Has(Val(e.dict).Type) => Val(Val(e.dict).Type) = "CryptFilter"
    /\ Has(Val(e.dict).CFM)
    /\ Val(Val(e.dict).CFM) \in {CryptFilterV2, CryptFilterAESV2, CryptFilterAESV3}

\* Entry e is loaded or, being named Identity, passed over.
Loaded(e) ==
    /\ Has(e.dict)
    /\ e.name # "Identity"
           => /\ LengthRead(e)
              /\ Has(Val(e.dict).Length)
                     => Acceptable(Val(Val(e.dict).Length), Val(Val(e.dict).CFM))

\* C23: LoadCryptFilters accepts the Length of a CF entry exactly when it
\* is a multiple of 8 and lies in 5..16, or is 64 or 128 (stored divided
\* by 8), or is 32 with CFM = AESV3; every other value makes it return an
\* error, and an accepted entry is stored with its length in bytes.
C23_FilterLength ==
    pc = "filters_ret"
    => \A i \in DOMAIN Val(args.CF) :
           (/\ \A j \in 1..(i - 1) : Loaded(Val(args.CF)[j])
            /\ LengthRead(Val(args.CF)[i])
            /\ Has(Val(Val(args.CF)[i].dict).Length))
           => IF Acceptable(Val(Val(Val(args.CF)[i].dict).Length),
                            Val(Val(Val(args.CF)[i].dict).CFM))
              THEN /\ (\A j \in DOMAIN Val(args.CF) : Loaded(Val(args.CF)[j]))
                          => ret \notin LengthErrors
                   /\ Val(args.CF)[i].name \in DOMAIN crypt.CryptFilters
                   /\ crypt.CryptFilters[Val(args.CF)[i].name]
                          = CryptFilter(Val(Val(Val(args.CF)[i].dict).CFM),
                                        StoredLength(Val(Val(Val(args.CF)[i].dict).Length)))
              ELSE ret \in LengthErrors

\* An entry of Length 128 stored as 16 behind an entry of Length 32 and
\* method AESV3.
C23_Witness ==
    /\ pc = "filters_ret" /\ ret = NoErr
    /\ DOMAIN crypt.CryptFilters = {"StdCF", "AESCF", "Identity"}
    /\ crypt.CryptFilters["StdCF"] = CryptFilter(CryptFilterAESV3, 32)
    /\ crypt.CryptFilters["AESCF"] = CryptFilter(CryptFilterAESV2, 16)
    /\ Val(Val(args.CF)[2].dict).Length = Some(128)

\* C24: after LoadCryptFilters returns without error the registry entry
\* Identity is the pass-through entry whatever the CF dictionary held under
\* that name, and StringFilter and StreamFilter each name an entry of the
\* registry, Identity when StrF or StmF is absent.
C24_IdentityAndNames ==
    (pc = "filters_ret" /\ ret = NoErr)
    => /\ "Identity" \in DOMAIN crypt.CryptFilters
       /\ crypt.CryptFilters["Identity"] = CryptFilter("", 0)
       /\ crypt.StringFilter \in DOMAIN crypt.CryptFilters
       /\ crypt.StreamFilter \in DOMAIN crypt.CryptFilters
       /\ crypt.StringFilter = IF Has(args.StrF) THEN Val(args.StrF) ELSE "Identity"
       /\ crypt.StreamFilter = IF Has(args.StmF) THEN Val(args.StmF) ELSE "Identity"

\* A CF dictionary with an RC4 entry named Identity, and StrF naming it.
C24_Witness ==
    /\ pc = "filters_ret" /\ ret = NoErr
    /\ \E i \in DOMAIN Val(args.CF) :
           /\ Val(args.CF)[i].name = "Identity"
           /\ Has(Val(args.CF)[i].dict)
           /\ Val(Val(args.CF)[i].dict).CFM = Some(CryptFilterV2)
    /\ args.StrF = Some("Identity")
    /\ crypt.StreamFilter = "AESCF"

(***************************************************************************)
(* authenticate twice                                                      *)
(***************************************************************************)

\* The step is a call of authenticate with the password of the call
\* before, which was a call of authenticate that returned (true, nil).
SecondAuthenticate ==
    /\ ret.op = "authenticate" /\ ret.ok /\ ret.err = NoErr
    /\ args'.calls = args.calls + 1
    /\ ret'.op = "authenticate"
    /\ args'.password = args.password

SameAgain == ret'.ok /\ ret'.err = NoErr /\ crypt'.EncryptionKey = crypt.EncryptionKey

\* C25: for R = 6 two consecutive calls of authenticate with the same
\* correct password both return (true, nil) and leave the same
\* EncryptionKey.
C25_AuthenticateRepeatable ==
    [][(crypt.R = 6 /\ SecondAuthenticate) => SameAgain]_vars

\* The same for the revisions before 6.
AuthenticateRepeatableBefore6 ==
    [][(crypt.R < 6 /\ args.sound /\ SecondAuthenticate) => SameAgain]_vars

(***************************************************************************)
(* DecryptedObjects after an error                                         *)
(***************************************************************************)

\* The objects whose calls had not returned when the last entry of the log
\* was made: those of the call chain down to the object of the entry.
Unfinished(log) ==
    {Enclosing(log, Len(log), e) :
        e \in 0..(IF log[Len(log)].op = "visit" THEN log[Len(log)].depth
                  ELSE log[Len(log)].depth - 1)}

\* A Decrypt call returned an error of makeKey or decryptBytes.
DecryptFailed ==
    /\ pc = "open" /\ ret.op = "Decrypt"
    /\ ret.err \notin {NoErr, Panic, StackOverflow}

\* C26: an indirect object or stream is a member of DecryptedObjects only
\* if its decryption completed without error, so that a second Decrypt call
\* after an error attempts the decryption again.
C26_MemoOnlyWhenDone ==
    DecryptFailed => Unfinished(ret.log) \cap crypt.DecryptedObjects = {}

\* The indirect objects and streams a failed call entered are all members.
MemoAtEntry ==
    DecryptFailed
    => \A k \in DOMAIN ret.log :
           (ret.log[k].op = "visit"
            /\ heap[ret.log[k].id].kind \in {"indirect", "stream"})
           => ret.log[k].id \in crypt.DecryptedObjects

(***************************************************************************)
(* Streams with an empty Filter array                                      *)
(***************************************************************************)

\* Stream id has a Filter entry that is an array without elements.
EmptyFilterArray(id) ==
    /\ heap[id].kind = "stream"
    /\ DictGet(heap, heap[id].ref, "Filter") # 0
    /\ heap[DictGet(heap, heap[id].ref, "Filter")].kind = "array"
    /\ heap[DictGet(heap, heap[id].ref, "Filter")].elems = Nil

\* The last call got to the payload of every stream with an empty Filter
\* array it visited, with the filter f, and did not abort before.
EmptyFilterUses(f) ==
    \A k \in DOMAIN ret.log :
        (ret.log[k].op = "visit" /\ EmptyFilterArray(ret.log[k].id))
        => /\ ret.err = Panic
                  => \E j \in DOMAIN ret.log :
                         ret.log[j].op = "bytes" /\ ret.log[j].err = Panic
           /\ (f # "Identity" /\ ret.err = NoErr)
                  => \E j \in DOMAIN ret.log :
                         /\ ret.log[j].op = "bytes"
                         /\ ret.log[j].id = ret.log[k].id
                         /\ ret.log[j].filter = f

\* C27: for V >= 4 Decrypt and Encrypt return normally for every stream
\* dictionary: for a stream whose Filter entry is an empty array they
\* neither read past the end of the array nor abort, and use the
\* document's stream filter.
C27_EmptyFilterArray ==
    (pc = "open" /\ ret.op \in {"Decrypt", "Encrypt"} /\ crypt.V >= 4)
    => EmptyFilterUses(crypt.StreamFilter)

\* Before V = 4 the Filter entry is not looked at.
EmptyFilterArrayBeforeV4 ==
    (pc = "open" /\ ret.op \in {"Decrypt", "Encrypt"} /\ crypt.V < 4)
    => /\ EmptyFilterUses("Default")
       /\ args.doc = "unfiltered" => ret.err = NoErr

(***************************************************************************)
(* Encrypt, then Decrypt, with RC4                                         *)
(***************************************************************************)

\* Every decryptBytes or encryptBytes call of the log went to a filter of
\* method V2.
AllRC4(log) ==
    \A k \in DOMAIN log :
        log[k].op = "bytes" => crypt.CryptFilters[log[k].filter].Cfm = CryptFilterV2

\* The step is a Decrypt call that returns without error, on the object
\* and with the numbers of the Encrypt call before it, which was the first
\* call on the document and returned without error, both with RC4 only.
DecryptAfterEncrypt ==
    /\ pc = "open" /\ args.calls = 1
    /\ ret.op = "Encrypt" /\ ret.err = NoErr /\ ret.log # << >>
    /\ args'.calls = 2
    /\ ret'.op = "Decrypt" /\ ret'.err = NoErr /\ ret'.log # << >>
    /\ ret'.log[1].id = ret.log[1].id
    /\ ret'.parent = ret.parent
    /\ AllRC4(ret.log) /\ AllRC4(ret'.log)

C29_LongPassword ==
    (pc = "open" /\ ret.op = "checkAccessRights" /\ crypt.R = 6 /\ args.sound) =>
        ret.err # Panic

\* It returns normally for every password of at most 127 bytes, and below
\* R = 6 for every password.
LongPasswordOtherwise ==
    (/\ pc = "open" /\ ret.op = "checkAccessRights" /\ args.sound
     /\ (crypt.R <= 5 \/ Len(args.password) <= 127)) =>
        ret.err # Panic

(***************************************************************************)
(* MultiEncoder.DecodeStream and the predictors of its stages              *)
(***************************************************************************)

\* C30: for a stream whose Filter is the one-element array [FlateDecode]
\* (or [LZWDecode]) with a Predictor > 1 in its DecodeParms,
\* MultiEncoder.DecodeStream returns the same bytes as the DecodeStream of
\* the single FlateEncoder (or LZWEncoder) built from the same stream.
\* The streams taken are those the single encoder decodes without error.
C30_MultiPredictor ==
    (pc = "rows_multi" /\ args.enc.Predictor > 1 /\ decoded.err = NoErr)
    => (ret.err = NoErr /\ ret.out = decoded.out)

\* What it returns is the decompressed payload as it is, from the one call
\* of the stage's DecodeBytes.
MultiDecompressesOnly ==
    pc = "rows_multi"
    => /\ ret.out = data /\ ret.err = NoErr
       /\ Len(ret.log) = 1
       /\ ret.log[1].in = encoded.out /\ ret.log[1].out = data

====
